---------------------------- MODULE Spec2Model ----------------------------
(***************************************************************************)
(* Token engine of chess-evolutionary-algo (packages/engine/src).          *)
(*                                                                         *)
(* Objects that the code mutates in place (ChessAlgorithm objects and      *)
(* Instance memory banks) live in `heap`, addressed by reference, so that  *)
(* aliasing and in-place updates (lodash set, Array shuffle, assignments   *)
(* to memory[i].value) are visible to every holder of the reference.       *)
(* Token trees are nested records keyed exactly like the JSON objects.     *)
(***************************************************************************)
EXTENDS Integers, Sequences, FiniteSets, TLC

VARIABLES
    pc,     \* which operation is running, and where it stands
    heap,   \* reference -> object: ChessAlgorithm objects and memory banks
    walk,   \* the running walkAlgorithmTokens call
    mut,    \* the running mutateAlgorithm / mutateStaticMemory call
    evo,    \* the running evolveInstance call
    game,   \* the running compareInstances call
    ghost   \* values of the past that the properties refer to

vars == <<pc, heap, walk, mut, evo, game, ghost>>

(***************************************************************************)
(* constants.ts                                                            *)
(***************************************************************************)
MAX_TOKEN_DEPTH_PER_ITERATION == 3

MIN_MUTATION_RATE == 1

\* constants.ts has MAX_MUTATION_RATE = 4, STATIC_MEMORY_SIZE = 36 and
\* DYNAMIC_MEMORY_SIZE = 24; the model is checked with scaled-down values.
MAX_MUTATION_RATE == 2

STATIC_MEMORY_SIZE == 2

DYNAMIC_MEMORY_SIZE == 1

MEMORY_SIZE == STATIC_MEMORY_SIZE + DYNAMIC_MEMORY_SIZE

CUSTOM_VARIABLE_MIN == -99

CUSTOM_VARIABLE_MAX == 99

BOARD_ALGORITHM_VARIABLE_IDS ==
    << "is_self", "is_opponent", "is_empty", "is_pawn", "is_knight",
       "is_bishop", "is_rook", "is_queen", "is_king", "is_in_check",
       "is_in_checkmate", "is_draw", "castled_king_side",
       "castled_queen_side", "was_captured", "pawn_was_captured",
       "knight_was_captured", "bishop_was_captured", "rook_was_captured",
       "queen_was_captured", "possible_moves", "can_capture",
       "can_capture_pawn", "can_capture_knight", "can_capture_bishop",
       "can_capture_rook", "can_capture_queen", "can_move_here",
       "pawn_can_move_here", "knight_can_move_here", "bishop_can_move_here",
       "rook_can_move_here", "queen_can_move_here", "king_can_move_here" >>

MOVEMENT_ALGORITHM_VARIABLE_IDS ==
    << "is_in_check", "is_in_checkmate", "is_draw", "depth",
       "first_iteration_pre_move_total", "first_iteration_post_move_total",
       "prev_iteration_pre_move_total", "prev_iteration_post_move_total",
       "this_iteration_pre_move_total", "this_iteration_post_move_total" >>

ALL_PROVIDED_VARIABLE_IDS ==
    BOARD_ALGORITHM_VARIABLE_IDS \o
    << "depth",
       "first_iteration_pre_move_total", "first_iteration_post_move_total",
       "prev_iteration_pre_move_total", "prev_iteration_post_move_total",
       "this_iteration_pre_move_total", "this_iteration_post_move_total" >>

\* `custom_${i}` for the indices the scaled memory bank can hold.
CustomNames ==
    << "custom_0", "custom_1", "custom_2", "custom_3", "custom_4",
       "custom_5", "custom_6", "custom_7" >>

CustomId(i) == CustomNames[i + 1]

CUSTOM_VARIABLE_IDS == [i \in 1..MEMORY_SIZE |-> CustomId(i - 1)]

FUNCTION_TOKEN_IDS ==
    << "add", "sub", "mul", "div", "sqrt", "mod", "pow", "round", "floor",
       "ceil", "min", "max", "abs", "eq", "neq", "gt", "gte", "lt", "lte",
       "binary", "invert", "and", "or", "if", "write" >>

Range(s) == {s[i] : i \in DOMAIN s}

VARIABLE_IDS == ALL_PROVIDED_VARIABLE_IDS \o CUSTOM_VARIABLE_IDS

(***************************************************************************)
(* utils.ts                                                                *)
(***************************************************************************)
isFunctionId(id) == id \in Range(FUNCTION_TOKEN_IDS)

isVariableId(id) == id \in Range(VARIABLE_IDS)

\* dotJoin(left, right): a path is kept as the sequence of its segments;
\* a segment is a key, with the array index for `args[i]` (-1 otherwise).
Segment(key, idx) == [key |-> key, idx |-> idx]

dotJoin(left, right) == Append(left, right)

\* The "no object" value (null / undefined) where a token is expected.
Null == [id |-> "null"]

\* Fisher-Yates, utils.ts shuffle: every sequence of randomIndex draws.
Swap(array, i, j) == [array EXCEPT ![i] = array[j], ![j] = array[i]]

RECURSIVE FisherYates(_, _)
FisherYates(array, currentIndex) ==
    IF currentIndex = 0 THEN {array}
    ELSE UNION { FisherYates(Swap(array, currentIndex, randomIndex + 1),
                             currentIndex - 1)
                 : randomIndex \in 0..(currentIndex - 1) }

shuffle(array) == FisherYates(array, Len(array))

(***************************************************************************)
(* Token shapes (generateRandomToken's switch, types.ts)                   *)
(***************************************************************************)
ArgsIds == {"add", "sub", "mul", "div", "mod", "eq", "neq", "and", "or",
            "min", "max"}

ValueIds == {"binary", "invert", "sqrt", "round", "floor", "ceil", "abs"}

LeftRightIds == {"gt", "gte", "lt", "lte"}

\* Object.keys(token) without 'id', in the insertion order of the literals
\* built by generateRandomToken.
TokenChildKeys(id) ==
    CASE id \in ArgsIds -> <<"args">>
      [] id \in ValueIds -> <<"value">>
      [] id \in LeftRightIds -> <<"left", "right">>
      [] id = "pow" -> <<"base", "power">>
      [] id = "if" -> <<"condition", "then", "else">>
      [] id = "write" -> <<"memoryIndex", "value">>
      [] OTHER -> <<>>

\* value?.id is a token id: false for the number held under memoryIndex.
HoldsToken(key) == key # "memoryIndex"

RECURSIVE GetAt(_, _)
GetAt(token, path) ==
    IF path = <<>> THEN token
    ELSE LET s == Head(path)
             v == token[s.key]
         IN GetAt(IF s.idx >= 0 THEN v[s.idx + 1] ELSE v, Tail(path))

\* lodash set(object, path, value) on an existing path.
RECURSIVE SetAt(_, _, _)
SetAt(token, path, replacer) ==
    IF path = <<>> THEN replacer
    ELSE LET s == Head(path)
         IN IF s.idx >= 0
            THEN [token EXCEPT ![s.key][s.idx + 1] =
                     SetAt(token[s.key][s.idx + 1], Tail(path), replacer)]
            ELSE [token EXCEPT ![s.key] =
                     SetAt(token[s.key], Tail(path), replacer)]

(***************************************************************************)
(* Token helpers used by the properties                                    *)
(***************************************************************************)
Leaf(id) == [id |-> id]

Args(id, args) == [id |-> id, args |-> args]

Unary(id, value) == [id |-> id, value |-> value]

RECURSIVE AllPaths(_)
AllPaths(token) ==
    {<<>>} \cup
    UNION { IF key = "args"
            THEN UNION { { <<Segment(key, i - 1)>> \o q
                           : q \in AllPaths(token[key][i]) }
                         : i \in 1..Len(token[key]) }
            ELSE IF HoldsToken(key)
            THEN { <<Segment(key, -1)>> \o q : q \in AllPaths(token[key]) }
            ELSE {}
            : key \in Range(TokenChildKeys(token.id)) }

CountTokens(token) == Cardinality(AllPaths(token))

IsPrefix(p, q) == Len(p) <= Len(q) /\ SubSeq(q, 1, Len(p)) = p

Front(q) == SubSeq(q, 1, Len(q) - 1)

\* Longest root-to-leaf path, in edges.
TokenDepth(token) ==
    LET lens == { Len(q) : q \in AllPaths(token) }
    IN CHOOSE n \in lens : \A m \in lens : m <= n

VariableLeaves(token) ==
    { GetAt(token, q).id : q \in { r \in AllPaths(token) :
                                     isVariableId(GetAt(token, r).id) } }

(***************************************************************************)
(* generateRandomToken                                                     *)
(*                                                                         *)
(* Every random draw is a choice.  random(0, 1, true) ranges over the      *)
(* closed interval [0, 1]: the model draws n / RandomResolution for        *)
(* n in 0..RandomResolution.  The ids drawn from FUNCTION_TOKEN_IDS and    *)
(* from the variable pools are limited to FunctionDraws and VariableDraws, *)
(* and a generated tree to `budget` tokens.                                *)
(***************************************************************************)
RandomResolution == 2

RandomValues == 0..RandomResolution

FunctionDraws == {"sub", "abs", "min", "write"}

VariableDraws ==
    {"pawn_was_captured", "is_in_check", "depth"} \cup Range(CUSTOM_VARIABLE_IDS)

\* constants.ts has MAX_TOKEN_DYNAMIC_ARGS_LENGTH = 8.
MAX_TOKEN_DYNAMIC_ARGS_LENGTH == 3

\* functionBias, in tenths; parent === null is the id "null".
functionBias(parent, iterationCount) ==
    IF parent = "null" THEN 10
    ELSE IF iterationCount >= MAX_TOKEN_DEPTH_PER_ITERATION THEN 0
    ELSE IF isFunctionId(parent) THEN 4
    ELSE 6

\* randomValue <= functionBias, for randomValue = n / RandomResolution
PicksFunction(n, bias) == 10 * n <= bias * RandomResolution

\* A pool that does not depend on the kind of program.
variablePool_AnyProvided(algorithmType) == ALL_PROVIDED_VARIABLE_IDS

\* const variablePool = algorithmType === 'board' ? ... : ...
variablePool(algorithmType) ==
    IF algorithmType = "board" THEN BOARD_ALGORITHM_VARIABLE_IDS
    ELSE MOVEMENT_ALGORITHM_VARIABLE_IDS

\* The ids tokenId can be assigned at lines 26-39.
TokenIdDraws(parent, algorithmType, iterationCount) ==
    LET bias == functionBias(parent, iterationCount) IN
    { f \in Range(FUNCTION_TOKEN_IDS) \cap FunctionDraws :
        \E n \in RandomValues : PicksFunction(n, bias) }
    \cup
    { v \in Range(variablePool(algorithmType)) \cap VariableDraws :
        \E n \in RandomValues : ~PicksFunction(n, bias) }

\* Math.floor of randomBoxMuller(2, MAX_TOKEN_DYNAMIC_ARGS_LENGTH, 3), as
\* Array.from({ length }) takes it.
DynamicArgsLengths == 2..MAX_TOKEN_DYNAMIC_ARGS_LENGTH

RECURSIVE generateRandomToken(_, _, _, _)
RECURSIVE generateSubTokens(_, _, _, _, _)

\* `count` successive calls of generateSubToken(), as the sequence of their
\* results.
generateSubTokens(tokenId, algorithmType, iterationCount, count, budget) ==
    IF count = 0 THEN { <<>> }
    ELSE UNION {
           { <<t>> \o rest
             : rest \in generateSubTokens(tokenId, algorithmType,
                            iterationCount, count - 1,
                            budget - Cardinality(AllPaths(t))) }
           : t \in generateRandomToken(tokenId, algorithmType,
                                       iterationCount + 1,
                                       budget - (count - 1)) }

generateRandomToken(parent, algorithmType, iterationCount, budget) ==
    IF budget < 1 THEN {}
    ELSE UNION {
      IF isVariableId(tokenId) THEN { [id |-> tokenId] }
      ELSE LET sub(count) == generateSubTokens(tokenId, algorithmType,
                                 iterationCount, count, budget - 1)
           IN CASE tokenId \in ArgsIds \ {"min", "max"} ->
                     { [id |-> tokenId, args |-> a] : a \in sub(2) }
                [] tokenId \in ValueIds ->
                     { [id |-> tokenId, value |-> a[1]] : a \in sub(1) }
                [] tokenId \in LeftRightIds ->
                     { [id |-> tokenId, left |-> a[1], right |-> a[2]]
                       : a \in sub(2) }
                [] tokenId \in {"min", "max"} ->
                     UNION { { [id |-> tokenId, args |-> a] : a \in sub(length) }
                             : length \in DynamicArgsLengths }
                [] tokenId = "pow" ->
                     { [id |-> tokenId, base |-> a[1], power |-> a[2]]
                       : a \in sub(2) }
                [] tokenId = "if" ->
                     { [id |-> tokenId, condition |-> a[1], then |-> a[2],
                        else |-> a[3]] : a \in sub(3) }
                [] tokenId = "write" ->
                     { [id |-> tokenId, memoryIndex |-> memoryIndex,
                        value |-> a[1]]
                       : memoryIndex \in STATIC_MEMORY_SIZE..(MEMORY_SIZE - 1),
                         a \in sub(1) }
      : tokenId \in TokenIdDraws(parent, algorithmType, iterationCount) }

\* initializeNewAlgorithm(type)
initializeNewAlgorithm(type, budget) ==
    { [rootToken |-> t, type |-> type]
      : t \in generateRandomToken("null", type, 0, budget) }

(***************************************************************************)
(* walkAlgorithmTokens                                                     *)
(*                                                                         *)
(* The recursion of step() is kept as an explicit stack of pending calls:  *)
(* a frame is one call step(parent, token, path) not yet entered.  The     *)
(* token and the parent are found through their paths in the algorithm     *)
(* object, which is the object the JS references point into.               *)
(***************************************************************************)
Frame(hasParent, parentPath, path) ==
    [hasParent |-> hasParent, parentPath |-> parentPath, path |-> path]

\* The recursive call step(token, subtoken, dotJoin(path, ...)) made by the
\* call step(_, token, path).
ChildCall(path, segment) == Frame(TRUE, path, dotJoin(path, segment))

\* The loop over an array with i < tokenList.length - 1.
ArrayCalls_SkipLast(tokenList, path, key) ==
    LET kept == { i \in 1..(Len(tokenList) - 1) :
                    isVariableId(tokenList[i].id) \/ isFunctionId(tokenList[i].id) }
        RECURSIVE From(_)
        From(i) == IF i > Len(tokenList) THEN <<>>
                   ELSE (IF i \in kept
                         THEN <<ChildCall(path, Segment(key, i - 1))>>
                         ELSE <<>>) \o From(i + 1)
    IN From(1)

\* for (let i = 0; i < tokenList.length; i++) step(token, tokenList[i], ...)
ArrayCalls(tokenList, path, key) ==
    LET kept == { i \in 1..Len(tokenList) :
                    isVariableId(tokenList[i].id) \/ isFunctionId(tokenList[i].id) }
        RECURSIVE From(_)
        From(i) == IF i > Len(tokenList) THEN <<>>
                   ELSE (IF i \in kept
                         THEN <<ChildCall(path, Segment(key, i - 1))>>
                         ELSE <<>>) \o From(i + 1)
    IN From(1)

\* for (const key of tokenChildKeys) { ... }: every outcome, as the token
\* after the in-place shuffles of its arrays and the calls made, in order.
RECURSIVE LoopKeys(_, _, _, _)
LoopKeys(token, keys, path, shuffleMode) ==
    IF keys = <<>> THEN { [token |-> token, calls |-> <<>>] }
    ELSE LET key == Head(keys) IN
         IF key = "args"
         THEN UNION {
                { [token |-> r.token,
                   calls |-> ArrayCalls(tokenList, path, key) \o r.calls]
                  : r \in LoopKeys([token EXCEPT ![key] = tokenList],
                                   Tail(keys), path, shuffleMode) }
                : tokenList \in (IF shuffleMode THEN shuffle(token[key])
                                 ELSE {token[key]}) }
         ELSE { [token |-> r.token,
                 calls |-> (IF HoldsToken(key)
                               /\ (isVariableId(token[key].id)
                                    \/ isFunctionId(token[key].id))
                            THEN <<ChildCall(path, Segment(key, -1))>>
                            ELSE <<>>) \o r.calls]
                : r \in LoopKeys(token, Tail(keys), path, shuffleMode) }

\* What the visitor does with `done` during one callback.
NoAct == [kind |-> "none", replacer |-> Null]

DoneAct == [kind |-> "done", replacer |-> Null]

ReplaceAct(replacer) == [kind |-> "replace", replacer |-> replacer]

\* const done = (replacer) => { ... }
done(root, path, act) ==
    IF act.kind = "replace"
    THEN (IF path = <<>> THEN act.replacer ELSE SetAt(root, path, act.replacer))
    ELSE root

\* if (hasCompleted) return;  at the entry of step()
EntryReturns(w) == w.hasCompleted

\* One call of step(): every outcome [heap, walk] for the visitor's act.
step(h, w, act) ==
    LET frame == Head(w.stack)
        root == h[w.algorithm].rootToken
        token == GetAt(root, frame.path)
        parent == IF frame.hasParent THEN GetAt(root, frame.parentPath)
                  ELSE Null
        visit == [parent |-> parent, hasParent |-> frame.hasParent,
                  parentPath |-> frame.parentPath, path |-> frame.path,
                  token |-> token, act |-> act.kind, replacer |-> act.replacer]
        visited == [w EXCEPT !.visits = Append(w.visits, visit),
                             !.stack = Tail(w.stack)]
    IN IF EntryReturns(w)
       THEN { [heap |-> h, walk |-> [w EXCEPT !.stack = Tail(w.stack)]] }
       ELSE IF act.kind # "none"
       THEN { [heap |-> [h EXCEPT ![w.algorithm].rootToken =
                                     done(root, frame.path, act)],
               walk |-> [visited EXCEPT !.hasCompleted = TRUE]] }
       ELSE IF isVariableId(token.id)
       THEN { [heap |-> h, walk |-> visited] }
       ELSE UNION {
              { [heap |-> [h EXCEPT ![w.algorithm].rootToken =
                                       SetAt(root, frame.path, r.token)],
                 walk |-> [visited EXCEPT !.stack = r.calls \o Tail(w.stack)]]
                : r \in LoopKeys(token, tokenChildKeys, frame.path, w.shuffle) }
              : tokenChildKeys \in (IF w.shuffle
                                    THEN shuffle(TokenChildKeys(token.id))
                                    ELSE {TokenChildKeys(token.id)}) }

\* walkAlgorithmTokens(algorithm, callback, shuffle): the state at the call
\* step(null, algorithm.rootToken, '').
walkAlgorithmTokens(algorithm, shuffleMode) ==
    [algorithm |-> algorithm, shuffle |-> shuffleMode, hasCompleted |-> FALSE,
     stack |-> <<Frame(FALSE, <<>>, <<>>)>>, visits |-> <<>>]

NoMut == [active |-> FALSE]

NoEvo == [active |-> FALSE]

NoGame == [active |-> FALSE]

NoWalk ==
    [algorithm |-> "none", shuffle |-> FALSE, hasCompleted |-> FALSE,
     stack |-> <<>>, visits |-> <<>>]

(***************************************************************************)
(* JSON.stringify / JSON.parse                                             *)
(***************************************************************************)
NumberText == << "0", "1", "2", "3", "4", "5", "6", "7", "8", "9" >>

\* JSON.stringify(token): the text as the sequence of its lexical items.
RECURSIVE stringify(_)
RECURSIVE stringifyList(_)
RECURSIVE stringifyKeys(_, _)
stringifyList(tokens) ==
    IF tokens = <<>> THEN <<>>
    ELSE stringify(Head(tokens)) \o
         (IF Len(tokens) > 1 THEN <<",">> ELSE <<>>) \o
         stringifyList(Tail(tokens))

stringifyKeys(token, keys) ==
    IF keys = <<>> THEN <<>>
    ELSE LET key == Head(keys) IN
         <<",", key, ":">> \o
         (IF key = "args" THEN <<"[">> \o stringifyList(token[key]) \o <<"]">>
          ELSE IF HoldsToken(key) THEN stringify(token[key])
          ELSE <<NumberText[token[key] + 1]>>) \o
         stringifyKeys(token, Tail(keys))

stringify(token) ==
    <<"{", "id", ":", token.id>> \o
    stringifyKeys(token, TokenChildKeys(token.id)) \o <<"}">>

\* String.prototype.includes on two such texts.
Contains(text, part) ==
    \E i \in 1..(Len(text) - Len(part) + 1) :
        SubSeq(text, i, i + Len(part) - 1) = part

\* A clone that is the object it was asked to copy.
cloneAlgorithm_SameObject(h, algorithm, fresh) ==
    [heap |-> h, ref |-> algorithm]

\* utils.ts cloneAlgorithm: JSON.parse(JSON.stringify(algorithm)) is a new
\* object, stored under the reference `fresh`, with equal content.
cloneAlgorithm(h, algorithm, fresh) ==
    [heap |-> [h EXCEPT ![fresh] = h[algorithm]], ref |-> fresh]

(***************************************************************************)
(* mutateAlgorithm                                                         *)
(***************************************************************************)
\* The literal 1000 of `tokenAttempts < 1000` (index.ts:276) and of
\* `memoryAttempts < 1000` (index.ts:339), scaled down.
MaxAttempts == 3

\* Tokens of a subtree generated for one mutation.
MaxMutationTokens == 2

NoObject == [rootToken |-> Null, type |-> "none"]

\* walkAlgorithmTokens(tempAlgorithm, () => algorithmTokenCount++)
RECURSIVE WalkToEnd(_, _)
WalkToEnd(h, w) ==
    IF w.stack = <<>> THEN [heap |-> h, walk |-> w]
    ELSE LET r == CHOOSE r \in step(h, w, NoAct) : TRUE
         IN WalkToEnd(r.heap, r.walk)

algorithmTokenCount(h, tempAlgorithm) ==
    Len(WalkToEnd(h, walkAlgorithmTokens(tempAlgorithm, FALSE)).walk.visits)

\* The callback of lines 289-302 at the call at the head of the stack: the
\* acts it can take, over the draws of random(0, 1, true) and of
\* generateRandomToken(token.id, tempAlgorithm.type, 0).
MutationActs(h, w, tokenCount, budget) ==
    LET frame == Head(w.stack)
        token == GetAt(h[w.algorithm].rootToken, frame.path)
        walks == Len(w.visits) + 1
        \* random(0, 1, true) <= walks / algorithmTokenCount
        Hits(n) == n * tokenCount <= walks * RandomResolution
    IN { NoAct : n \in { m \in RandomValues : ~(frame.hasParent /\ Hits(m)) } }
       \cup
       { ReplaceAct(mutation)
         : mutation \in
             IF frame.hasParent /\ (\E n \in RandomValues : Hits(n))
             THEN generateRandomToken(token.id, h[w.algorithm].type, 0, budget)
             ELSE {} }

\* walkAlgorithmTokens(tempAlgorithm, ({parent, path, token, done}) => ..., true)
RECURSIVE MutationWalk(_, _, _, _)
MutationWalk(h, w, tokenCount, budget) ==
    IF w.stack = <<>> THEN { [heap |-> h, walk |-> w] }
    ELSE UNION { UNION { MutationWalk(r.heap, r.walk, tokenCount, budget)
                         : r \in step(h, w, act) }
                 : act \in (IF EntryReturns(w) THEN {NoAct}
                            ELSE MutationActs(h, w, tokenCount, budget)) }

\* tokenMutationData after the walk: { path, from: token, to: mutation }
tokenMutationData(w) ==
    LET hit == { i \in 1..Len(w.visits) : w.visits[i].act = "replace" }
    IN IF hit = {} THEN <<>>
       ELSE LET i == CHOOSE i \in hit : TRUE
            IN << [path |-> w.visits[i].path, from |-> w.visits[i].token,
                   to |-> w.visits[i].replacer] >>

\* The commit condition without the comparison of serializations.
Commits_WithoutComparison(data, tempRoot, rootTokenStringified) == data # <<>>

\* if (tokenMutationData && JSON.stringify(tempAlgorithm.rootToken) !==
\*     rootTokenStringified)
Commits(data, tempRoot, rootTokenStringified) ==
    data # <<>> /\ stringify(tempRoot) # rootTokenStringified

\* The state of a call mutateAlgorithm(algorithm) before its loop; the
\* object newAlgorithm gets the reference `fresh`, and `budget` bounds the
\* tokens of each subtree the call generates.
mutateAlgorithm(h, algorithm, fresh, totalTokenMutations, caller, budget) ==
    LET c == cloneAlgorithm(h, algorithm, fresh)
    IN [heap |-> c.heap,
        mut |-> [active |-> TRUE, caller |-> caller, algorithm |-> algorithm,
                 rootTokenStringified |-> stringify(h[algorithm].rootToken),
                 newAlgorithm |-> c.ref,
                 tokenAttempts |-> 0,
                 totalTokenMutations |-> totalTokenMutations,
                 tokenMutations |-> <<>>,
                 budget |-> budget]]

\* while (tokenAttempts < 1000 && tokenMutations.length < totalTokenMutations)
MutateLoops(m) ==
    m.tokenAttempts < MaxAttempts
    /\ Len(m.tokenMutations) < m.totalTokenMutations

\* tempAlgorithm is a local of the loop body: when the body ends nothing
\* refers to the object any more.
EndOfBody(h) == [h EXCEPT !["tempAlgorithm"] = NoObject]

\* One pass of the loop body, lines 277-314: every outcome [heap, mut].
MutateBody(h, m) ==
    LET c == cloneAlgorithm(h, m.newAlgorithm, "tempAlgorithm")
        tokenCount == algorithmTokenCount(c.heap, c.ref)
    IN { LET data == tokenMutationData(r.walk)
             tempRoot == r.heap[c.ref].rootToken
         IN IF Commits(data, tempRoot, m.rootTokenStringified)
            THEN [heap |-> EndOfBody([r.heap EXCEPT
                                        ![m.newAlgorithm].rootToken = tempRoot]),
                  mut |-> [m EXCEPT !.tokenMutations = @ \o data,
                                    !.tokenAttempts = @ + 1]]
            ELSE [heap |-> EndOfBody(r.heap),
                  mut |-> [m EXCEPT !.tokenAttempts = @ + 1]]
         : r \in MutationWalk(c.heap, walkAlgorithmTokens(c.ref, TRUE),
                              tokenCount, m.budget) }

MutateAttempt ==
    /\ pc = "mutateAlgorithm"
    /\ MutateLoops(mut)
    /\ \E r \in MutateBody(heap, mut) :
         /\ heap' = r.heap
         /\ mut' = r.mut
    /\ UNCHANGED <<pc, walk, evo, game, ghost>>

\* return { algorithm: newAlgorithm, tokenMutations }: control goes back to
\* the caller, which finds the result in `mut`.
MutateReturn ==
    /\ pc = "mutateAlgorithm"
    /\ ~MutateLoops(mut)
    /\ pc' = mut.caller
    /\ UNCHANGED <<heap, walk, mut, evo, game, ghost>>

(***************************************************************************)
(* Specification SpecAlgorithm: initializeNewAlgorithm(type), then         *)
(* mutateAlgorithm on the result, and again on what it returned.           *)
(***************************************************************************)
\* Tokens of a tree generated by initializeNewAlgorithm.
MaxGeneratedTokens == 5

\* Only trees of at most this many tokens are handed to mutateAlgorithm.
MaxMutatedTokens == 3

\* Successive mutateAlgorithm calls, each on the result of the one before.
MaxMutateCalls == 2

OtherRef(ref) == IF ref = "algorithm0" THEN "algorithm1" ELSE "algorithm0"

InitAlgorithm ==
    /\ pc = "start"
    /\ heap = [r \in {"algorithm0", "algorithm1", "tempAlgorithm"} |-> NoObject]
    /\ walk = NoWalk
    /\ mut = NoMut
    /\ evo = NoEvo
    /\ game = NoGame
    /\ \E type \in {"board", "movement"} :
         ghost = [type |-> type, current |-> "algorithm0", calls |-> 0]

InitializeNewAlgorithm ==
    /\ pc = "start"
    /\ \E algorithm \in initializeNewAlgorithm(ghost.type, MaxGeneratedTokens) :
         heap' = [heap EXCEPT !["algorithm0"] = algorithm]
    /\ pc' = "initialized"
    /\ UNCHANGED <<walk, mut, evo, game, ghost>>

MutateAlgorithmCall ==
    /\ pc \in {"initialized", "mutated"}
    /\ ghost.calls < MaxMutateCalls
    /\ LET algorithm == IF pc = "mutated" THEN mut.newAlgorithm
                        ELSE ghost.current
       IN /\ CountTokens(heap[algorithm].rootToken) <= MaxMutatedTokens
          /\ \E totalTokenMutations \in MIN_MUTATION_RATE..MAX_MUTATION_RATE :
               LET r == mutateAlgorithm(heap, algorithm, OtherRef(algorithm),
                                        totalTokenMutations, "mutated",
                                        MaxMutationTokens)
               IN heap' = r.heap /\ mut' = r.mut
          /\ ghost' = [ghost EXCEPT !.current = algorithm, !.calls = @ + 1]
    /\ pc' = "mutateAlgorithm"
    /\ UNCHANGED <<walk, evo, game>>

NextAlgorithm ==
    \/ InitializeNewAlgorithm
    \/ MutateAlgorithmCall
    \/ MutateAttempt
    \/ MutateReturn

SpecAlgorithm == InitAlgorithm /\ [][NextAlgorithm]_vars

\* The variable ids each kind of program may read (spec section 6).
AllowedVariables(kind) ==
    (IF kind = "board" THEN Range(BOARD_ALGORITHM_VARIABLE_IDS)
     ELSE Range(MOVEMENT_ALGORITHM_VARIABLE_IDS))
    \cup Range(CUSTOM_VARIABLE_IDS)

AlgorithmObjects ==
    { r \in DOMAIN heap : "type" \in DOMAIN heap[r] /\ heap[r] # NoObject }

\* C6: every variable leaf of an algorithm of kind k produced by
\* initializeNewAlgorithm(k) or by mutateAlgorithm calls on it is in the
\* allowed subset for k or is a custom id; a board tree never holds `depth`,
\* a movement tree never holds `pawn_was_captured`.
C6_TreeKindClosure ==
    \A r \in AlgorithmObjects :
        /\ heap[r].type = ghost.type
        /\ VariableLeaves(heap[r].rootToken) \subseteq AllowedVariables(heap[r].type)
        /\ heap[r].type = "board" => "depth" \notin VariableLeaves(heap[r].rootToken)
        /\ heap[r].type = "movement" =>
               "pawn_was_captured" \notin VariableLeaves(heap[r].rootToken)

\* A second mutateAlgorithm call has returned a tree with a variable that
\* only its kind may read.
C6_Witness ==
    /\ pc = "mutated"
    /\ ghost.calls = 2
    /\ Len(mut.tokenMutations) > 0
    /\ VariableLeaves(heap[mut.newAlgorithm].rootToken)
          \cap {"pawn_was_captured", "depth"} # {}

\* C7 as stated: generateRandomToken at depth >= MAX_TOKEN_DEPTH_PER_ITERATION
\* under a parent returns a variable leaf, so no root-to-leaf path of a tree
\* of initializeNewAlgorithm has more than 3 edges.
C7_DepthBound ==
    pc = "initialized" =>
        LET root == heap["algorithm0"].rootToken IN
        /\ \A q \in AllPaths(root) :
              Len(q) >= MAX_TOKEN_DEPTH_PER_ITERATION =>
                  isVariableId(GetAt(root, q).id)
        /\ TokenDepth(root) <= MAX_TOKEN_DEPTH_PER_ITERATION

MutateReturned == pc = "mutated"

MemoryValueDraws == {CUSTOM_VARIABLE_MIN, CUSTOM_VARIABLE_MAX}

DynamicIndexes == STATIC_MEMORY_SIZE..(MEMORY_SIZE - 1)

\* The memory array built by initializeNewInstance, lines 230-249, for the
\* drawn static values.
NewMemory(staticValues) ==
    [cells |->
        [i \in 1..MEMORY_SIZE |->
            [id |-> CustomId(i - 1), index |-> i - 1,
             value |-> IF i <= STATIC_MEMORY_SIZE THEN staticValues[i] ELSE 0]]]

InstanceRefs(prefix) ==
    [boardAlgorithm |-> prefix \o ".boardAlgorithm",
     movementAlgorithm |-> prefix \o ".movementAlgorithm",
     memory |-> prefix \o ".memory"]

AllRefs(prefix) ==
    { InstanceRefs(prefix).boardAlgorithm, InstanceRefs(prefix).movementAlgorithm,
      InstanceRefs(prefix).memory }

ChildPrefix(n) == "child" \o NumberText[n + 1]

\* A cloneInstance that returns the instance it was given.
cloneInstance_SameObject(h, instance, fresh) ==
    [heap |-> h, instance |-> instance]

\* utils.ts cloneInstance: JSON.parse(JSON.stringify(instance)), three new
\* objects under the references `fresh`.
cloneInstance(h, instance, fresh) ==
    [heap |-> [h EXCEPT ![fresh.boardAlgorithm] = h[instance.boardAlgorithm],
                        ![fresh.movementAlgorithm] = h[instance.movementAlgorithm],
                        ![fresh.memory] = h[instance.memory]],
     instance |-> [id |-> instance.id,
                   boardAlgorithm |-> fresh.boardAlgorithm,
                   movementAlgorithm |-> fresh.movementAlgorithm,
                   memory |-> fresh.memory]]

\* A clearDynamicMemory that clears nothing.
clearDynamicMemory_Nothing(h, instance) == h

\* utils.ts clearDynamicMemory: instance.memory[memoryIndex].value = 0
clearDynamicMemory(h, instance) ==
    [h EXCEPT ![instance.memory].cells =
        [i \in DOMAIN @ |->
            IF (i - 1) \in DynamicIndexes THEN [@[i] EXCEPT !.value = 0]
            ELSE @[i]]]

\* Objects held only by locals of a function that has returned.
Release(h, refs) ==
    [r \in DOMAIN h |->
        IF r \in refs
        THEN NoObject
        ELSE h[r]]

LocalRefs == AllRefs("local")

\* utils.ts hashInstance.  The digest is taken to be as fine as the content
\* it is computed from: JSON.stringify({ ba, ma, mm }) of the cleared clone.
hashInstance(h, instance) ==
    LET c == cloneInstance(h, instance, InstanceRefs("local"))
        cleared == clearDynamicMemory(c.heap, c.instance)
        hashContent ==
            [ba |-> [rootToken |-> stringify(cleared[c.instance.boardAlgorithm].rootToken),
                     type |-> cleared[c.instance.boardAlgorithm].type],
             ma |-> [rootToken |-> stringify(cleared[c.instance.movementAlgorithm].rootToken),
                     type |-> cleared[c.instance.movementAlgorithm].type],
             mm |-> cleared[c.instance.memory].cells]
    IN [heap |-> Release(cleared, LocalRefs), hash |-> hashContent]

(***************************************************************************)
(* mutateStaticMemory                                                      *)
(***************************************************************************)
\* The while loop of lines 338-373 on the clone's memory: every outcome.
RECURSIVE MemoryLoop(_, _, _, _)
MemoryLoop(memory, memoryMutations, memoryAttempts, totalMemoryMutations) ==
    IF ~(memoryAttempts < MaxAttempts
         /\ Len(memoryMutations) < totalMemoryMutations)
    THEN { [memory |-> memory, memoryMutations |-> memoryMutations,
            memoryAttempts |-> memoryAttempts] }
    ELSE UNION {
      LET variableName == CustomId(randomIndex)
          match == \E i \in 1..Len(memoryMutations) :
                      memoryMutations[i].variableName = variableName
      IN IF match
         THEN MemoryLoop(memory, memoryMutations, memoryAttempts + 1,
                         totalMemoryMutations)
         ELSE UNION {
           IF memory[randomIndex + 1].value # newMemoryValue
           THEN LET written == [memory EXCEPT ![randomIndex + 1].value =
                                                  newMemoryValue]
                IN MemoryLoop(written,
                      Append(memoryMutations,
                             [variableName |-> variableName,
                              from |-> written[randomIndex + 1].value,
                              to |-> newMemoryValue]),
                      memoryAttempts + 1, totalMemoryMutations)
           ELSE MemoryLoop(memory, memoryMutations, memoryAttempts + 1,
                           totalMemoryMutations)
           : newMemoryValue \in MemoryValueDraws }
      : randomIndex \in 0..(STATIC_MEMORY_SIZE - 1) }

\* mutateStaticMemory(instance): every outcome; the returned memory is the
\* clone's, kept under the reference `fresh`.
mutateStaticMemory(h, instance, fresh, rates) ==
    LET c == cloneInstance(h, instance,
                 [InstanceRefs("local") EXCEPT !.memory = fresh])
    IN UNION {
         { [heap |-> Release([c.heap EXCEPT ![c.instance.memory].cells = r.memory],
                             LocalRefs),
            memory |-> c.instance.memory,
            memoryMutations |-> r.memoryMutations,
            memoryAttempts |-> r.memoryAttempts]
           : r \in MemoryLoop(c.heap[c.instance.memory].cells, <<>>, 0,
                              totalMemoryMutations) }
         : totalMemoryMutations \in rates }

(***************************************************************************)
(* evolveInstance                                                          *)
(***************************************************************************)
\* The factor 10 of `attempts < loopTarget * 10` (index.ts:408), scaled down.
AttemptsPerChild == 2

\* A denylist that is never consulted.
Denied_Never(denylist, childInstanceHash) == FALSE

\* denylist.has(childInstanceHash)
Denied(denylist, childInstanceHash) == childInstanceHash \in denylist

\* The loop condition with <= for <.
EvolveLoops_OneMore(e) ==
    e.attempts <= e.loopTarget * AttemptsPerChild
    /\ Len(e.children) < e.loopTarget

\* while (attempts < loopTarget * 10 && children.length < loopTarget)
EvolveLoops(e) ==
    e.attempts < e.loopTarget * AttemptsPerChild
    /\ Len(e.children) < e.loopTarget

\* The largest draw of random(MIN_MUTATION_RATE, MAX_MUTATION_RATE) for an
\* offspring.
MaxEvolveMutationRate == 1

MutationRates == MIN_MUTATION_RATE..MaxEvolveMutationRate

\* Tokens of a subtree generated for one mutation of an offspring.
MaxEvolveMutationTokens == 1

\* Lines 385-406: the state of a call evolveInstance(instance, totalOffspring)
\* before its loop.  uuid() hands out nextId.
evolveInstance(h, instance, totalOffspring, nextId) ==
    LET c == cloneInstance(h, instance, InstanceRefs(ChildPrefix(0)))
        cleared == clearDynamicMemory(c.heap, c.instance)
        hashed == hashInstance(cleared, instance)
    IN [heap |-> hashed.heap,
        evo |-> [active |-> TRUE, instance |-> instance,
                 totalOffspring |-> totalOffspring,
                 loopTarget |-> totalOffspring + 1,
                 children |-> << [instance |-> [c.instance EXCEPT !.id = nextId],
                                  tokenMutations |-> <<>>,
                                  memoryMutations |-> <<>>] >>,
                 denylist |-> {hashed.hash},
                 attempts |-> 0,
                 boardMutation |-> [algorithm |-> "none", tokenMutations |-> <<>>],
                 nextId |-> nextId + 1]]

\* const boardMutation = mutateAlgorithm(instance.boardAlgorithm)
EvolveMutateBoard ==
    /\ pc = "evolveInstance"
    /\ EvolveLoops(evo)
    /\ \E totalTokenMutations \in MutationRates :
         LET r == mutateAlgorithm(heap, evo.instance.boardAlgorithm,
                     InstanceRefs(ChildPrefix(Len(evo.children))).boardAlgorithm,
                     totalTokenMutations, "evolveInstance.boardMutation",
                     MaxEvolveMutationTokens)
         IN heap' = r.heap /\ mut' = r.mut
    /\ pc' = "mutateAlgorithm"
    /\ UNCHANGED <<walk, evo, game, ghost>>

\* const movementMutation = mutateAlgorithm(instance.movementAlgorithm)
EvolveMutateMovement ==
    /\ pc = "evolveInstance.boardMutation"
    /\ \E totalTokenMutations \in MutationRates :
         LET r == mutateAlgorithm(heap, evo.instance.movementAlgorithm,
                     InstanceRefs(ChildPrefix(Len(evo.children))).movementAlgorithm,
                     totalTokenMutations, "evolveInstance.movementMutation",
                     MaxEvolveMutationTokens)
         IN heap' = r.heap /\ mut' = r.mut
    /\ evo' = [evo EXCEPT !.boardMutation =
                  [algorithm |-> mut.newAlgorithm,
                   tokenMutations |-> mut.tokenMutations]]
    /\ pc' = "mutateAlgorithm"
    /\ UNCHANGED <<walk, game, ghost>>

\* Lines 413-439: mutateStaticMemory, the candidate, its hash, the denylist
\* and attempts++.
EvolveCandidate ==
    /\ pc = "evolveInstance.movementMutation"
    /\ LET slot == InstanceRefs(ChildPrefix(Len(evo.children))) IN
       \E memoryMutation \in mutateStaticMemory(heap, evo.instance, slot.memory,
                                               MutationRates) :
         LET childInstance ==
                 [id |-> evo.nextId,
                  boardAlgorithm |-> evo.boardMutation.algorithm,
                  movementAlgorithm |-> mut.newAlgorithm,
                  memory |-> memoryMutation.memory]
             hashed == hashInstance(memoryMutation.heap, childInstance)
         IN IF ~Denied(evo.denylist, hashed.hash)
            THEN /\ heap' = clearDynamicMemory(hashed.heap, childInstance)
                 /\ evo' = [evo EXCEPT
                       !.denylist = @ \cup {hashed.hash},
                       !.children = Append(@,
                           [instance |-> childInstance,
                            tokenMutations |-> evo.boardMutation.tokenMutations
                                               \o mut.tokenMutations,
                            memoryMutations |-> memoryMutation.memoryMutations]),
                       !.attempts = @ + 1,
                       !.nextId = @ + 1,
                       !.boardMutation = [algorithm |-> "none",
                                          tokenMutations |-> <<>>]]
            ELSE /\ heap' = Release(hashed.heap,
                                    AllRefs(ChildPrefix(Len(evo.children))))
                 /\ evo' = [evo EXCEPT
                       !.attempts = @ + 1,
                       !.nextId = @ + 1,
                       !.boardMutation = [algorithm |-> "none",
                                          tokenMutations |-> <<>>]]
    /\ mut' = NoMut
    /\ pc' = "evolveInstance"
    /\ UNCHANGED <<walk, game, ghost>>

\* return mutationResult
EvolveReturn ==
    /\ pc = "evolveInstance"
    /\ ~EvolveLoops(evo)
    /\ pc' = "evolved"
    /\ UNCHANGED <<heap, walk, mut, evo, game, ghost>>

(***************************************************************************)
(* Specification SpecEvolve: evolveInstance(P, K) on an instance P as      *)
(* initializeNewInstance builds it, whose dynamic cells a game may since   *)
(* have written.                                                           *)
(***************************************************************************)
\* totalOffspring ranges over 0..MaxOffspring.
MaxOffspring == 2

\* Values a game may have left in a dynamic cell.
DynamicValueDraws == {0, 7}

ParentBoardTrees ==
    { Args("sub", <<Leaf("pawn_was_captured"), Leaf("is_in_check")>>) }

ParentMovementTrees == { Unary("abs", Leaf("depth")) }

EvolveRefs ==
    UNION { AllRefs(ChildPrefix(n)) : n \in 0..MaxOffspring }
    \cup AllRefs("P") \cup LocalRefs \cup {"tempAlgorithm"}

PInstance ==
    [id |-> 0, boardAlgorithm |-> "P.boardAlgorithm",
     movementAlgorithm |-> "P.movementAlgorithm", memory |-> "P.memory"]

\* What JSON.stringify(P) shows: the id, both trees and every memory cell.
Serialized(h, instance) ==
    [id |-> instance.id,
     boardAlgorithm |-> [rootToken |-> stringify(h[instance.boardAlgorithm].rootToken),
                         type |-> h[instance.boardAlgorithm].type],
     movementAlgorithm |-> [rootToken |-> stringify(h[instance.movementAlgorithm].rootToken),
                            type |-> h[instance.movementAlgorithm].type],
     memory |-> h[instance.memory].cells]

InitEvolve ==
    /\ pc = "start"
    /\ walk = NoWalk
    /\ mut = NoMut
    /\ evo = NoEvo
    /\ game = NoGame
    /\ \E board \in ParentBoardTrees, movement \in ParentMovementTrees,
          staticValues \in [1..STATIC_MEMORY_SIZE -> {CUSTOM_VARIABLE_MIN}],
          dynamicValue \in DynamicValueDraws :
         /\ [rootToken |-> board, type |-> "board"]
               \in initializeNewAlgorithm("board", MaxMutatedTokens)
         /\ [rootToken |-> movement, type |-> "movement"]
               \in initializeNewAlgorithm("movement", MaxMutatedTokens)
         /\ heap = [r \in EvolveRefs |->
                CASE r = "P.boardAlgorithm" -> [rootToken |-> board, type |-> "board"]
                  [] r = "P.movementAlgorithm" ->
                        [rootToken |-> movement, type |-> "movement"]
                  [] r = "P.memory" ->
                        [cells |-> [i \in 1..MEMORY_SIZE |->
                            IF (i - 1) \in DynamicIndexes
                            THEN [NewMemory(staticValues).cells[i]
                                    EXCEPT !.value = dynamicValue]
                            ELSE NewMemory(staticValues).cells[i]]]
                  [] OTHER -> NoObject]
         /\ ghost = [before |-> Serialized(heap, PInstance)]

EvolveInstanceCall ==
    /\ pc = "start"
    /\ \E totalOffspring \in 0..MaxOffspring :
         LET r == evolveInstance(heap, PInstance, totalOffspring, 1)
         IN heap' = r.heap /\ evo' = r.evo
    /\ pc' = "evolveInstance"
    /\ UNCHANGED <<walk, mut, game, ghost>>

NextEvolve ==
    \/ EvolveInstanceCall
    \/ EvolveMutateBoard
    \/ EvolveMutateMovement
    \/ EvolveCandidate
    \/ EvolveReturn
    \/ MutateAttempt
    \/ MutateReturn

SpecEvolve == InitEvolve /\ [][NextEvolve]_vars

EvolveReturned == pc = "evolved"

Children == { evo.children[i].instance : i \in 1..Len(evo.children) }

hashOf(instance) == hashInstance(heap, instance).hash

DynamicCells(instance) ==
    { heap[instance.memory].cells[i + 1].value : i \in DynamicIndexes }

\* C1: at every point of evolveInstance(P, K), of the calls
\* mutateAlgorithm(P.boardAlgorithm), mutateAlgorithm(P.movementAlgorithm)
\* and mutateStaticMemory(P) it makes, and after it has returned, the
\* serialization of P (id, both trees with the order of their args lists,
\* every memory value) is the one P had before the call.
C1_MutationIndependence == Serialized(heap, PInstance) = ghost.before

\* evolveInstance has returned a child whose trees and memory were mutated.
C1_Witness ==
    /\ EvolveReturned
    /\ \E i \in 1..Len(evo.children) :
         /\ evo.children[i].tokenMutations # <<>>
         /\ evo.children[i].memoryMutations # <<>>
         /\ stringify(heap[evo.children[i].instance.boardAlgorithm].rootToken)
              # ghost.before.boardAlgorithm.rootToken

\* C2: the children of evolveInstance(P, K) have pairwise distinct content
\* hashes, child 0 hashes like P, and no later child hashes like P.
C2_OffspringUniqueness ==
    EvolveReturned =>
      /\ \A i, j \in 1..Len(evo.children) :
           i # j => hashOf(evo.children[i].instance)
                    # hashOf(evo.children[j].instance)
      /\ Cardinality({ hashOf(c) : c \in Children }) = Len(evo.children)
      /\ hashOf(evo.children[1].instance) = hashOf(PInstance)
      /\ \A i \in 2..Len(evo.children) :
           hashOf(evo.children[i].instance) # hashOf(PInstance)

\* evolveInstance has returned two mutated children after it had rejected a
\* candidate.
C2_Witness ==
    /\ EvolveReturned
    /\ Len(evo.children) = 3
    /\ evo.attempts > 2

\* C3: evolveInstance(P, K) returns; it makes at most AttemptsPerChild*(K+1)
\* attempts (the source's factor is 10), has at least 1 and at most K+1
\* children, and returns exactly K+1 children when attempts were left over.
C3_AttemptBudget ==
    evo.active =>
      /\ evo.attempts <= AttemptsPerChild * (evo.totalOffspring + 1)
      /\ Len(evo.children) >= 1
      /\ Len(evo.children) <= evo.totalOffspring + 1
      /\ evo.children[1].tokenMutations = <<>>
      /\ (EvolveReturned
          /\ evo.attempts < AttemptsPerChild * (evo.totalOffspring + 1))
         => Len(evo.children) = evo.totalOffspring + 1

\* What is left to run of evolveInstance, as a natural number: the attempts
\* left, then the statements left of the loop body, then the attempts left of
\* the mutateAlgorithm call in progress.
EvolveRank ==
    LET perCall == MaxAttempts + 1
        perAttempt == 2 * perCall + 4
        attemptsLeft == AttemptsPerChild * evo.loopTarget - evo.attempts
        tokenAttemptsLeft == MaxAttempts - mut.tokenAttempts
    IN CASE pc = "start" ->
              perAttempt * (AttemptsPerChild * (MaxOffspring + 1) + 1) + 1
         [] pc = "evolved" -> 0
         [] pc = "evolveInstance" ->
              1 + attemptsLeft * perAttempt + 2 * perCall + 3
         [] pc = "mutateAlgorithm"
            /\ mut.caller = "evolveInstance.boardMutation" ->
              1 + attemptsLeft * perAttempt + perCall + 2 + tokenAttemptsLeft
         [] pc = "evolveInstance.boardMutation" ->
              1 + attemptsLeft * perAttempt + perCall + 1
         [] pc = "mutateAlgorithm"
            /\ mut.caller = "evolveInstance.movementMutation" ->
              1 + attemptsLeft * perAttempt + 1 + tokenAttemptsLeft
         [] pc = "evolveInstance.movementMutation" ->
              1 + attemptsLeft * perAttempt

\* The statement evolveInstance is at has an outcome.
EvolveCanStep ==
    /\ EvolveRank \in Nat
    /\ (pc = "mutateAlgorithm" /\ MutateLoops(mut))
         => MutateBody(heap, mut) # {}
    /\ (pc = "evolveInstance.movementMutation")
         => mutateStaticMemory(heap, evo.instance, "local.memory",
                               MutationRates) # {}

\* Termination: no statement is without an outcome, and every step leaves
\* strictly less to run.
C3_EvolveTerminates ==
    /\ []C3_AttemptBudget
    /\ []EvolveCanStep
    /\ [][EvolveRank' < EvolveRank]_vars

\* evolveInstance has returned fewer than K+1 children, its attempts used up.
C3_Witness ==
    /\ EvolveReturned
    /\ evo.attempts = AttemptsPerChild * (evo.totalOffspring + 1)
    /\ Len(evo.children) < evo.totalOffspring + 1

\* C4: every child of evolveInstance(P, K) has all its dynamic cells at 0,
\* whatever P's dynamic cells hold.
C4_DynamicResetOnEvolve ==
    EvolveReturned => \A c \in Children : DynamicCells(c) = {0}

\* evolveInstance has returned child 0 and a mutated child of a parent whose
\* dynamic cells are not 0.
C4_Witness ==
    /\ EvolveReturned
    /\ Len(evo.children) >= 2
    /\ 0 \notin DynamicCells(PInstance)

(***************************************************************************)
(* Specification SpecWalk: one call of walkAlgorithmTokens on a tree, in   *)
(* ordered or shuffle mode, with a visitor that may do anything with       *)
(* `done` at each callback.                                                *)
(***************************************************************************)
WalkTrees ==
    { Args("add", <<Leaf("custom_1"),
                    Args("sub", <<Leaf("custom_2"), Leaf("is_in_check")>>)>>),
      Args("min", <<Leaf("is_self"), Leaf("is_king"), Leaf("is_pawn")>>),
      [id |-> "if",
       condition |-> [id |-> "gt", left |-> Leaf("is_self"),
                      right |-> Leaf("is_empty")],
       then |-> [id |-> "write", memoryIndex |-> STATIC_MEMORY_SIZE,
                 value |-> Unary("abs", Leaf("is_draw"))],
       else |-> [id |-> "pow", base |-> Leaf("is_king"),
                 power |-> Leaf("is_rook")]] }

Replacers == { Leaf("is_draw"), Unary("abs", Leaf("castled_king_side")) }

VisitorActs == {NoAct, DoneAct} \cup { ReplaceAct(x) : x \in Replacers }

InitWalk ==
    /\ pc = "walk"
    /\ \E tree \in WalkTrees, shuffleMode \in BOOLEAN :
         /\ heap = [r \in {"algorithm"} |-> [rootToken |-> tree, type |-> "board"]]
         /\ walk = walkAlgorithmTokens("algorithm", shuffleMode)
         /\ ghost = [before |-> tree]
    /\ mut = NoMut
    /\ evo = NoEvo
    /\ game = NoGame

WalkStep ==
    /\ pc = "walk"
    /\ walk.stack # <<>>
    /\ \E act \in VisitorActs : \E r \in step(heap, walk, act) :
         /\ heap' = r.heap
         /\ walk' = r.walk
    /\ UNCHANGED <<pc, mut, evo, game, ghost>>

NextWalk == WalkStep

SpecWalk == InitWalk /\ [][NextWalk]_vars

WalkReturned == pc = "walk" /\ walk.stack = <<>>

WalkRoot == heap[walk.algorithm].rootToken

\* C9: when the visitor never calls done, the visitor is invoked exactly once
\* for every node of the tree (as many invocations as nodes), a parent before
\* any of its children, and `parent` is the node's actual parent (null for
\* the root).
C9_WalkVisitsEveryNodeOnce ==
    (WalkReturned /\ ~walk.hasCompleted) =>
        LET v == walk.visits IN
        /\ Len(v) = CountTokens(WalkRoot)
        /\ { v[i].path : i \in 1..Len(v) } = AllPaths(WalkRoot)
        /\ \A i \in 1..Len(v) :
              IF v[i].path = <<>>
              THEN v[i].parent = Null /\ ~v[i].hasParent
              ELSE /\ v[i].hasParent
                   /\ v[i].parentPath = Front(v[i].path)
                   /\ v[i].parent.id = GetAt(WalkRoot, Front(v[i].path)).id
                   /\ \E j \in 1..(i - 1) : v[j].path = Front(v[i].path)

\* A walk over a tree with several levels has returned without done.
C9_Witness ==
    /\ WalkReturned /\ ~walk.hasCompleted
    /\ walk.shuffle
    /\ Len(walk.visits) = 5
    /\ ghost.before # WalkRoot

ReplacedAt(i) == walk.visits[i].act = "replace"

\* C10 as stated: when the visitor calls done(x) at a node n, the visitor is
\* never invoked again, the node at n's position is x, and every node outside
\* n's subtree keeps its kind and position.
C10_DoneReplacesInPlace ==
    WalkReturned =>
        \A i \in 1..Len(walk.visits) : ReplacedAt(i) =>
            LET p == walk.visits[i].path IN
            /\ i = Len(walk.visits)
            /\ GetAt(WalkRoot, p) = walk.visits[i].replacer
            /\ \A q \in AllPaths(ghost.before) : ~IsPrefix(p, q) =>
                  /\ q \in AllPaths(WalkRoot)
                  /\ GetAt(WalkRoot, q).id = GetAt(ghost.before, q).id

(***************************************************************************)
(* execAlgorithm                                                           *)
(*                                                                         *)
(* A JS number that is an integer is that integer.  The three IEEE-754     *)
(* values that `/` and `%` return on a zero divisor are integers far       *)
(* beyond every integer a program of this model computes, and the          *)
(* arithmetic below treats them as JS does.  The sign of zero is not kept, *)
(* and a quotient that is no integer is not represented: Divide is defined *)
(* on the operands that have an integer, infinite or NaN quotient.         *)
(***************************************************************************)
PositiveInfinity == 1000001

NegativeInfinity == 0 - PositiveInfinity

NotANumber == 1000003

isNaN(value) == value = NotANumber

isFinite(value) ==
    value \notin {PositiveInfinity, NegativeInfinity, NotANumber}

Sign(value) == IF value > 0 THEN 1 ELSE IF value < 0 THEN -1 ELSE 0

Magnitude(value) == IF value < 0 THEN -value ELSE value

\* x + y
Plus(x, y) ==
    IF isNaN(x) \/ isNaN(y) THEN NotANumber
    ELSE IF ~isFinite(x)
         THEN IF ~isFinite(y) /\ y # x THEN NotANumber ELSE x
    ELSE IF ~isFinite(y) THEN y
    ELSE x + y

\* x - y
Minus(x, y) == Plus(x, IF isNaN(y) THEN y ELSE -y)

\* x * y
Times(x, y) ==
    IF isNaN(x) \/ isNaN(y) THEN NotANumber
    ELSE IF ~isFinite(x) \/ ~isFinite(y)
         THEN IF x = 0 \/ y = 0 THEN NotANumber
              ELSE IF Sign(x) = Sign(y) THEN PositiveInfinity
              ELSE NegativeInfinity
    ELSE x * y

\* x / y
Divide(x, y) ==
    IF isNaN(x) \/ isNaN(y) THEN NotANumber
    ELSE IF ~isFinite(x)
         THEN IF ~isFinite(y) THEN NotANumber
              ELSE IF y >= 0 THEN x ELSE -x
    ELSE IF ~isFinite(y) THEN 0
    ELSE IF y = 0
         THEN IF x = 0 THEN NotANumber
              ELSE IF x > 0 THEN PositiveInfinity ELSE NegativeInfinity
    ELSE CASE Magnitude(x) % Magnitude(y) = 0 ->
                Sign(x) * Sign(y) * (Magnitude(x) \div Magnitude(y))

\* x % y: the remainder has the sign of the dividend.
Remainder(x, y) ==
    IF isNaN(x) \/ isNaN(y) \/ ~isFinite(x) \/ y = 0 THEN NotANumber
    ELSE IF ~isFinite(y) THEN x
    ELSE Sign(x) * (Magnitude(x) % Magnitude(y))

\* x > y, x >= y, x === y: false when either side is NaN.
Greater(x, y) == ~isNaN(x) /\ ~isNaN(y) /\ x > y

GreaterOrEqual(x, y) == ~isNaN(x) /\ ~isNaN(y) /\ x >= y

StrictEquals(x, y) == ~isNaN(x) /\ ~isNaN(y) /\ x = y

\* utils.ts binary on a number, and on a boolean.
binary(value) == IF GreaterOrEqual(value, 1) THEN 1 ELSE 0

binaryOfBoolean(value) == IF value THEN 1 ELSE 0

\* Math.abs
MathAbs(value) == IF isNaN(value) THEN NotANumber ELSE Magnitude(value)

\* Math.min(...values), Math.max(...values) of at least one value
MathMin(values) ==
    IF NotANumber \in Range(values) THEN NotANumber
    ELSE CHOOSE v \in Range(values) : \A w \in Range(values) : v <= w

MathMax(values) ==
    IF NotANumber \in Range(values) THEN NotANumber
    ELSE CHOOSE v \in Range(values) : \A w \in Range(values) : v >= w

\* new Chess(): what the variables and the game loop read of a board in the
\* start position, white to move, not in check, no move played.
NewChess ==
    [turn |-> "w", ply |-> 0, inCheck |-> FALSE, isCheckmate |-> FALSE,
     isDraw |-> FALSE, isGameOver |-> FALSE,
     lastMove |-> [to |-> "none", captured |-> "none"]]

\* chess-helpers checkCapture(board, square, { type })
checkCapture(board, square, type) ==
    /\ board.lastMove.to = square
    /\ board.lastMove.captured # "none"
    /\ board.lastMove.captured = type

\* What Array.prototype.find returns when no element matches, and what
\* memory[i] is when i is no index of the array.
Undefined == [undefined |-> TRUE]

\* populateVariable, for the variable ids the trees of this model hold: the
\* Variable object returned.
populateVariable(variableId, square, turn, board, memory) ==
    IF variableId \in Range(CUSTOM_VARIABLE_IDS)
    THEN IF \E m \in Range(memory) : m.id = variableId
         THEN LET found == CHOOSE m \in Range(memory) : m.id = variableId
              IN [id |-> variableId, value |-> found.value]
         ELSE Undefined
    ELSE [id |-> variableId,
          value |->
            CASE variableId = "depth" -> turn.depth
              [] variableId = "first_iteration_pre_move_total" ->
                   turn.outputs.firstIterationPreMoveTotal
              [] variableId = "first_iteration_post_move_total" ->
                   turn.outputs.firstIterationPostMoveTotal
              [] variableId = "prev_iteration_pre_move_total" ->
                   turn.outputs.prevIterationPreMoveTotal
              [] variableId = "prev_iteration_post_move_total" ->
                   turn.outputs.prevIterationPostMoveTotal
              [] variableId = "this_iteration_pre_move_total" ->
                   turn.outputs.thisIterationPreMoveTotal
              [] variableId = "this_iteration_post_move_total" ->
                   turn.outputs.thisIterationPostMoveTotal
              [] variableId = "is_in_check" -> binaryOfBoolean(board.inCheck)
              [] variableId = "pawn_was_captured" ->
                   binaryOfBoolean(checkCapture(board, square, "p"))]

\* The outcome of a call of walkToken: the number returned and the memory
\* of turn.instance after the writes, or a TypeError thrown (reading
\* `.value` of undefined) and the memory as the writes before it left it.
Returned(value, memory) ==
    [value |-> value, memory |-> memory, threw |-> FALSE]

Thrown(memory) == [value |-> NotANumber, memory |-> memory, threw |-> TRUE]

\* Both operands evaluated, the first before the second.
Both(first, second, value) ==
    IF first.threw THEN first
    ELSE IF second.threw THEN second
    ELSE Returned(value, second.memory)

\* execAlgorithm's walkToken, for the function ids the trees of this model
\* hold.
RECURSIVE walkToken(_, _, _, _, _)
RECURSIVE walkTokens(_, _, _, _, _)
walkToken(token, square, turn, board, memory) ==
    IF isVariableId(token.id)
    THEN LET variable == populateVariable(token.id, square, turn, board, memory)
         IN IF variable = Undefined THEN Thrown(memory)
            ELSE Returned(variable.value, memory)
    ELSE CASE token.id \in {"add", "sub", "mul", "div", "mod", "eq", "neq"} ->
                LET first == walkToken(token.args[1], square, turn, board, memory)
                    second == walkToken(token.args[2], square, turn, board,
                                        first.memory)
                    x == first.value
                    y == second.value
                IN Both(first, second,
                        CASE token.id = "add" -> Plus(x, y)
                          [] token.id = "sub" -> Minus(x, y)
                          [] token.id = "mul" -> Times(x, y)
                          [] token.id = "div" -> Divide(x, y)
                          [] token.id = "mod" -> Remainder(x, y)
                          [] token.id = "eq" ->
                               binaryOfBoolean(StrictEquals(x, y))
                          [] token.id = "neq" ->
                               binaryOfBoolean(~StrictEquals(x, y)))
           [] token.id = "and" ->
                LET first == walkToken(token.args[1], square, turn, board, memory)
                    second == walkToken(token.args[2], square, turn, board,
                                        first.memory)
                IN IF first.threw THEN first
                   ELSE IF binary(first.value) = 1
                        THEN Both(first, second,
                                  binaryOfBoolean(binary(second.value) = 1))
                   ELSE Returned(binaryOfBoolean(FALSE), first.memory)
           [] token.id = "or" ->
                LET first == walkToken(token.args[1], square, turn, board, memory)
                    second == walkToken(token.args[2], square, turn, board,
                                        first.memory)
                IN IF first.threw THEN first
                   ELSE IF binary(first.value) # 0
                        THEN Returned(binary(binary(first.value)), first.memory)
                   ELSE Both(first, second, binary(binary(second.value)))
           [] token.id \in {"binary", "invert", "round", "floor", "ceil",
                            "abs"} ->
                LET inner == walkToken(token.value, square, turn, board, memory)
                    x == inner.value
                IN Both(inner, inner,
                        CASE token.id = "binary" -> binary(x)
                          [] token.id = "invert" ->
                               IF binary(x) = 0 THEN 1 ELSE 0
                          [] token.id \in {"round", "floor", "ceil"} -> x
                          [] token.id = "abs" -> MathAbs(x))
           [] token.id \in {"gt", "gte", "lt", "lte"} ->
                LET left == walkToken(token.left, square, turn, board, memory)
                    right == walkToken(token.right, square, turn, board,
                                       left.memory)
                    x == left.value
                    y == right.value
                IN Both(left, right,
                        CASE token.id = "gt" -> binaryOfBoolean(Greater(x, y))
                          [] token.id = "gte" ->
                               binaryOfBoolean(GreaterOrEqual(x, y))
                          [] token.id = "lt" -> binaryOfBoolean(Greater(y, x))
                          [] token.id = "lte" ->
                               binaryOfBoolean(GreaterOrEqual(y, x)))
           [] token.id \in {"min", "max"} ->
                LET mapped == walkTokens(token.args, square, turn, board, memory)
                IN IF mapped.threw THEN Thrown(mapped.memory)
                   ELSE Returned(IF token.id = "min" THEN MathMin(mapped.values)
                                 ELSE MathMax(mapped.values),
                                 mapped.memory)
           [] token.id = "if" ->
                LET condition == walkToken(token.condition, square, turn, board,
                                           memory)
                IN IF condition.threw THEN condition
                   ELSE IF binary(condition.value) # 0
                        THEN walkToken(token.then, square, turn, board,
                                       condition.memory)
                   ELSE walkToken(token.else, square, turn, board,
                                  condition.memory)
           [] token.id = "write" ->
                LET inner == walkToken(token.value, square, turn, board, memory)
                IN IF inner.threw THEN inner
                   ELSE IF (token.memoryIndex + 1) \notin DOMAIN inner.memory
                        THEN Thrown(inner.memory)
                   ELSE Returned(inner.value,
                                 [inner.memory EXCEPT
                                    ![token.memoryIndex + 1].value = inner.value])

\* token.args.map(walkToken)
walkTokens(tokenList, square, turn, board, memory) ==
    IF tokenList = <<>>
    THEN [values |-> <<>>, memory |-> memory, threw |-> FALSE]
    ELSE LET first == walkToken(Head(tokenList), square, turn, board, memory)
             rest == walkTokens(Tail(tokenList), square, turn, board,
                                first.memory)
         IN IF first.threw
            THEN [values |-> <<>>, memory |-> first.memory, threw |-> TRUE]
            ELSE [values |-> <<first.value>> \o rest.values,
                  memory |-> rest.memory, threw |-> rest.threw]

\* execAlgorithm(algorithm, square, turn): the number returned, or the
\* error thrown, and the heap after the writes to turn.instance.memory.
execAlgorithm(h, algorithm, square, turn, board) ==
    LET r == walkToken(h[algorithm].rootToken, square, turn, board,
                       h[turn.instance.memory].cells)
    IN [value |-> r.value, threw |-> r.threw,
        heap |-> [h EXCEPT ![turn.instance.memory].cells = r.memory]]

(***************************************************************************)
(* chess.js, as far as compareInstances and the variables of this model    *)
(* read it.  A position is the number of moves played, whose turn it is,   *)
(* the last move and whether it gave check, mate or a draw.  Every         *)
(* position before the last ply has the moves OpenMoves, the last ply has  *)
(* FinalMoves, which end the game.                                         *)
(***************************************************************************)
MaxPlies == 3

OtherColor(color) == IF color = "w" THEN "b" ELSE "w"

Move(to, captured, outcome) ==
    [to |-> to, captured |-> captured, outcome |-> outcome]

OpenMoves ==
    << Move("a1", "none", "none"), Move("a2", "p", "none"),
       Move("a1", "none", "check") >>

FinalMoves == << Move("a2", "none", "checkmate"), Move("a1", "p", "draw") >>

\* chess.moves({ verbose: true })
chessMoves(board) ==
    IF board.isGameOver THEN <<>>
    ELSE IF board.ply + 1 < MaxPlies THEN OpenMoves
    ELSE FinalMoves

\* chess.move(move); also new Chess(chess.fen()) followed by move(move),
\* whose history holds that one move.
chessMove(board, move) ==
    [turn |-> OtherColor(board.turn),
     ply |-> board.ply + 1,
     inCheck |-> move.outcome \in {"check", "checkmate"},
     isCheckmate |-> move.outcome = "checkmate",
     isDraw |-> move.outcome = "draw",
     isGameOver |-> move.outcome \in {"checkmate", "draw"},
     lastMove |-> [to |-> move.to, captured |-> move.captured]]

\* chess-helpers checkCapture(board, square) without filters
checkCaptureOfAny(board, square) ==
    board.lastMove.to = square /\ board.lastMove.captured # "none"

(***************************************************************************)
(* compareInstances.  The calls of the async playNextTurn that have not    *)
(* returned are the frames of game.stack, the innermost last.  A call      *)
(* yields to the event loop once, at its first line; from there to the     *)
(* next call of playNextTurn or to the end of the game loop's turn the     *)
(* code runs without yielding, so the callback of the turn's timer runs    *)
(* only while a call waits at its first line.                              *)
(***************************************************************************)
FITNESS_SCORES ==
    [CHECKMATED_THEM |-> 50, WAS_CHECKMATED |-> -10, TIMEOUT |-> -20,
     FAIL_TO_PICK |-> -20, TURN_PLAYED |-> 1, CAPTURED_PIECE |-> 2,
     LOST_PIECE |-> -1, CHECKED_THEM |-> 3, WAS_CHECKED |-> -1,
     FORCED_DRAW |-> 5, WAS_DRAWN |-> -1]

MAX_MOVEMENT_SEARCH_DEPTH == 2

\* loopBoard calls back for 8 x 8 squares, a1 first.
BoardSize == 2

SquareNames == <<"a1", "a2", "a3", "a4", "a5", "a6", "a7", "a8">>

Squares == SubSeq(SquareNames, 1, BoardSize)

NoOutputs ==
    [firstIterationPreMoveTotal |-> 0, firstIterationPostMoveTotal |-> 0,
     prevIterationPreMoveTotal |-> 0, prevIterationPostMoveTotal |-> 0,
     thisIterationPreMoveTotal |-> 0, thisIterationPostMoveTotal |-> 0]

\* What playNextTurn returns: null, or { score, nextTurn, move }.
NullResult == [isNull |-> TRUE]

NoPending == [active |-> FALSE]

\* Lines 902-946: chess, instancesOrder, evaluationResult and lastTurns for
\* one outcome of the shuffle.  `board: chess` is the board of the game
\* itself (live), not a copy.
compareInstances(instancesOrder) ==
    [active |-> TRUE,
     chess |-> NewChess,
     instancesOrder |-> instancesOrder,
     evaluationResult |->
         [id \in {instancesOrder[1].id, instancesOrder[2].id} |->
             [fitnessScore |-> 0,
              color |-> IF id = instancesOrder[1].id THEN "w" ELSE "b"]],
     lastTurns |->
         [w |-> [instance |-> instancesOrder[1], board |-> NewChess,
                 live |-> TRUE, color |-> "w", depth |-> 0,
                 outputs |-> NoOutputs],
          b |-> [instance |-> instancesOrder[2], board |-> NewChess,
                 live |-> TRUE, color |-> "b", depth |-> 0,
                 outputs |-> NoOutputs]],
     hasCancelled |-> FALSE,
     resolved |-> <<>>,
     currentTurnColor |-> "none",
     timer |-> "none",
     aborted |-> FALSE,
     stack |-> <<>>,
     result |-> NullResult,
     clones |-> 0]

\* updateFitnessScore without its test of hasCancelled.
updateFitnessScore_Unguarded(g, id, score) ==
    [g EXCEPT !.evaluationResult[id].fitnessScore = @ + score]

\* updateFitnessScore(id, score)
updateFitnessScore(g, id, score) ==
    IF ~g.hasCancelled
    THEN [g EXCEPT !.evaluationResult[id].fitnessScore = @ + score]
    ELSE g

\* endGame(): resolve(evaluationResult) hands over the object itself; the
\* record keeps what it held when it was handed over.
endGame(g) ==
    IF g.hasCancelled THEN g
    ELSE [g EXCEPT !.hasCancelled = TRUE, !.resolved = <<g.evaluationResult>>]

\* The sum of the deltas that the fitness table gives for the events of
\* the game, with one more event.
Credit(expected, id, score) == [expected EXCEPT ![id] = @ + score]

\* Lines 978-989: thisTurnPreMove shares lastTurn's instance and board.
thisTurnPreMove(lastTurn) ==
    [lastTurn EXCEPT
       !.depth = lastTurn.depth + 1,
       !.outputs = [lastTurn.outputs EXCEPT
           !.prevIterationPreMoveTotal = lastTurn.outputs.thisIterationPreMoveTotal,
           !.prevIterationPostMoveTotal = lastTurn.outputs.thisIterationPostMoveTotal,
           !.thisIterationPreMoveTotal = 0,
           !.thisIterationPostMoveTotal = 0]]

\* The board a turn's `board` refers to.
TurnBoard(g, turn) == IF turn.live THEN g.chess ELSE turn.board

\* A call playNextTurn(lastTurn, abortController), waiting at line 975.
Call(lastTurn) ==
    [lastTurn |-> lastTurn, thisTurnPreMove |-> lastTurn, square |-> 0,
     moveIndex |-> 1, scoredMoves |-> <<>>, pending |-> NoPending]

Top(g) == g.stack[Len(g.stack)]

SetTop(g, frame) == [g EXCEPT !.stack[Len(g.stack)] = frame]

CurrentInstanceId(g) ==
    IF g.currentTurnColor = "w" THEN g.instancesOrder[1].id
    ELSE g.instancesOrder[2].id

OpponentInstanceId(g) ==
    IF g.currentTurnColor = "w" THEN g.instancesOrder[2].id
    ELSE g.instancesOrder[1].id

\* loopBoard with the callback of lines 991-997 (pre-move) or 1022-1028
\* (post-move) over `squares`: the heap after the writes, the outputs
\* object after the additions, or the error thrown by execAlgorithm.
RECURSIVE loopBoard(_, _, _, _, _)
loopBoard(h, turn, board, squares, postMove) ==
    IF squares = <<>>
    THEN [heap |-> h, outputs |-> turn.outputs, threw |-> FALSE]
    ELSE LET r == execAlgorithm(h, turn.instance.boardAlgorithm, Head(squares),
                                turn, board)
             outputs ==
                 IF postMove
                 THEN [turn.outputs EXCEPT
                         !.thisIterationPostMoveTotal = Plus(@, r.value)]
                 ELSE [turn.outputs EXCEPT
                         !.thisIterationPreMoveTotal = Plus(@, r.value)]
         IN IF r.threw
            THEN [heap |-> r.heap, outputs |-> turn.outputs, threw |-> TRUE]
            ELSE loopBoard(r.heap, [turn EXCEPT !.outputs = outputs], board,
                           Tail(squares), postMove)

\* Lines 1075-1078: scoredMoves.reduce from scoredMoves[0].
RECURSIVE reduce(_, _)
reduce(scoredMoves, best) ==
    IF scoredMoves = <<>> THEN best
    ELSE reduce(Tail(scoredMoves),
                IF Greater(Head(scoredMoves).score, best.score)
                THEN Head(scoredMoves) ELSE best)

\* The references of the n-th clone made by this game.
RECURSIVE NumberName(_)
NumberName(n) ==
    IF n < 10 THEN NumberText[n + 1]
    ELSE NumberName(n \div 10) \o NumberText[(n % 10) + 1]

ClonePrefix(n) == "clone" \o NumberName(n)

\* What the properties below read of a return of playNextTurn.
Observed(g, result) ==
    [isNull |-> result.isNull,
     move |-> IF result.isNull THEN Move("none", "none", "none")
              ELSE result.move,
     score |-> IF result.isNull THEN 0 ELSE result.score,
     scoredMoves |-> [i \in 1..Len(Top(g).scoredMoves) |->
                        [move |-> Top(g).scoredMoves[i].move,
                         score |-> Top(g).scoredMoves[i].score]],
     legalMoves |-> Len(chessMoves(g.chess)),
     aborted |-> g.aborted,
     depth |-> Top(g).thisTurnPreMove.depth]

\* `return result` of the innermost call: the game loop goes on at line
\* 1108, a calling playNextTurn at line 1049 with its candidate scored.
Return(g, result) ==
    LET rest == Front(g.stack)
    IN IF rest = <<>>
       THEN [pc |-> "playGame.turnPlayed",
             game |-> [g EXCEPT !.stack = <<>>, !.result = result]]
       ELSE LET caller == rest[Len(rest)]
                scored ==
                    [nextTurn |-> caller.pending.nextTurn,
                     move |-> caller.pending.move,
                     score |-> IF result.isNull
                               THEN caller.pending.movementOutput
                               ELSE result.score]
            IN [pc |-> "playNextTurn.moves",
                game |-> [g EXCEPT !.stack =
                    Append(Front(rest),
                           [caller EXCEPT
                              !.scoredMoves = Append(@, scored),
                              !.moveIndex = @ + 1,
                              !.pending = NoPending])]]

CompareInstancesCall ==
    /\ pc = "start"
    /\ \E instancesOrder \in shuffle(ghost.instances) :
         game' = compareInstances(instancesOrder)
    /\ pc' = "playGame"
    /\ UNCHANGED <<heap, walk, mut, evo, ghost>>

\* Lines 1081-1106: the test of the game loop, the head of a turn and the
\* call of playNextTurn; line 1173 and the return of compareInstances when
\* the test fails.
PlayNextTurnCall ==
    /\ pc = "playGame"
    /\ IF ~game.chess.isGameOver \/ ~game.hasCancelled
       THEN LET currentTurnColor == game.chess.turn
                turn == [game EXCEPT !.currentTurnColor = currentTurnColor]
                scored == updateFitnessScore(turn, CurrentInstanceId(turn),
                                             FITNESS_SCORES.TURN_PLAYED)
            IN /\ game' = [scored EXCEPT
                     !.timer = "armed",
                     !.aborted = FALSE,
                     !.stack = <<Call(game.lastTurns[currentTurnColor])>>]
               /\ pc' = "playNextTurn.await"
               /\ ghost' = [ghost EXCEPT !.turns = @ + 1,
                                         !.started[currentTurnColor] = @ + 1]
       ELSE /\ game' = endGame(game)
            /\ pc' = "returned"
            /\ ghost' = ghost
    /\ UNCHANGED <<heap, walk, mut, evo>>

\* Lines 1096-1102: the callback of the turn's timer.  The timer of
\* setTimeout(resolve, 0) of the outermost call is due before it, the
\* timers of the calls below it need not be.
TimerFires ==
    /\ pc = "playNextTurn.await"
    /\ Len(game.stack) > 1
    /\ game.timer = "armed"
    /\ game' = [endGame(updateFitnessScore([game EXCEPT !.aborted = TRUE],
                                           CurrentInstanceId(game),
                                           FITNESS_SCORES.TIMEOUT))
                  EXCEPT !.timer = "fired"]
    /\ ghost' = [ghost EXCEPT
           !.expected = Credit(@, CurrentInstanceId(game),
                               FITNESS_SCORES.TIMEOUT),
           !.timeout = IF @.fired THEN @
                       ELSE [fired |-> TRUE,
                             before |-> game.evaluationResult,
                             mover |-> CurrentInstanceId(game),
                             opponent |-> OpponentInstanceId(game),
                             chess |-> game.chess,
                             turns |-> ghost.turns]]
    /\ UNCHANGED <<pc, heap, walk, mut, evo>>

\* Lines 975-989: the call goes on after setTimeout(resolve, 0).
PlayNextTurnResume ==
    /\ pc = "playNextTurn.await"
    /\ IF game.aborted
       THEN LET r == Return(game, NullResult)
            IN /\ game' = r.game
               /\ pc' = r.pc
               /\ ghost' = [ghost EXCEPT
                              !.returned = Observed(game, NullResult)]
       ELSE /\ game' = SetTop(game,
                  [Top(game) EXCEPT
                     !.thisTurnPreMove = thisTurnPreMove(Top(game).lastTurn)])
            /\ pc' = "playNextTurn.loopBoard"
            /\ ghost' = ghost
    /\ UNCHANGED <<heap, walk, mut, evo>>

\* Lines 991-997: the callback of loopBoard on the next square.  An error
\* thrown by execAlgorithm leaves every async function on the stack and
\* rejects the promise of compareInstances.
LoopBoardStep ==
    /\ pc = "playNextTurn.loopBoard"
    /\ Top(game).square < Len(Squares)
    /\ LET turn == Top(game).thisTurnPreMove
           r == loopBoard(heap, turn, TurnBoard(game, turn),
                          <<Squares[Top(game).square + 1]>>, FALSE)
       IN /\ heap' = r.heap
          /\ IF r.threw
             THEN /\ game' = [game EXCEPT !.stack = <<>>]
                  /\ pc' = "rejected"
             ELSE /\ game' = SetTop(game,
                        [Top(game) EXCEPT !.thisTurnPreMove.outputs = r.outputs,
                                          !.square = @ + 1])
                  /\ pc' = pc
    /\ ghost' = [ghost EXCEPT !.evaluations = @ + 1]
    /\ UNCHANGED <<walk, mut, evo>>

\* Lines 999-1002, after the scan.
LoopBoardEnd ==
    /\ pc = "playNextTurn.loopBoard"
    /\ Top(game).square = Len(Squares)
    /\ game' = IF Top(game).lastTurn.depth = 0
               THEN SetTop(game,
                      [Top(game) EXCEPT
                         !.thisTurnPreMove.outputs.firstIterationPreMoveTotal =
                             Top(game).thisTurnPreMove.outputs.thisIterationPreMoveTotal])
               ELSE game
    /\ pc' = "playNextTurn.moves"
    /\ ghost' = [ghost EXCEPT !.preMoveMemory =
                   Append(SubSeq(@, 1, Len(game.stack) - 1),
                          heap[Top(game).thisTurnPreMove.instance.memory])]
    /\ UNCHANGED <<heap, walk, mut, evo>>

\* Lines 1012-1020: postMoveBoard and thisTurnPostMove.  The spread of
\* thisTurnPreMove keeps its outputs object; the clone is new.
spreadPreMove(frame, instance, postMoveBoard) ==
    [frame.thisTurnPreMove EXCEPT
       !.instance = instance,
       !.board = postMoveBoard,
       !.live = FALSE,
       !.color = OtherColor(frame.lastTurn.color)]

\* Lines 1030-1033 after the scan of lines 1022-1028.
firstIterationPostMove(scan, turn, firstIteration) ==
    [heap |-> scan.heap, threw |-> scan.threw,
     turn |-> [turn EXCEPT !.outputs =
                 IF firstIteration
                 THEN [scan.outputs EXCEPT
                         !.firstIterationPostMoveTotal =
                             scan.outputs.thisIterationPostMoveTotal]
                 ELSE scan.outputs]]

scanPostMove(h, turn, firstIteration) ==
    firstIterationPostMove(loopBoard(h, turn, turn.board, Squares, TRUE), turn,
                           firstIteration)

\* Lines 1012-1033: thisTurnPostMove after its scan of the board, and the
\* heap with the clone.
thisTurnPostMove(h, g, frame, move) ==
    LET clone == cloneInstance(
                   h @@ [r \in AllRefs(ClonePrefix(g.clones)) |-> NoObject],
                   frame.thisTurnPreMove.instance,
                   InstanceRefs(ClonePrefix(g.clones)))
    IN scanPostMove(clone.heap,
                    spreadPreMove(frame, clone.instance,
                                  chessMove(g.chess, move)),
                    frame.lastTurn.depth = 0)

\* Lines 1040-1070, with movementOutput computed.
scoreMove(g, frame, turn, move, movementOutput) ==
    IF movementOutput = 0
    THEN IF turn.depth < MAX_MOVEMENT_SEARCH_DEPTH
         THEN [pc |-> "playNextTurn.await",
               game |-> [g EXCEPT !.stack =
                   Append(Front(g.stack),
                          [frame EXCEPT !.pending =
                             [active |-> TRUE, nextTurn |-> turn, move |-> move,
                              movementOutput |-> movementOutput]])
                   \o <<Call(turn)>>]]
         ELSE [pc |-> "playNextTurn.moves",
               game |-> SetTop(g, [frame EXCEPT !.moveIndex = @ + 1])]
    ELSE [pc |-> "playNextTurn.moves",
          game |-> SetTop(g, [frame EXCEPT
                     !.scoredMoves =
                         Append(@, [nextTurn |-> turn, move |-> move,
                                    score |-> movementOutput]),
                     !.moveIndex = @ + 1])]

\* Lines 1035-1070.  An error thrown by execAlgorithm, in the scan or here,
\* rejects the promise of compareInstances.
execMovement(g, frame, postMove, movement, move) ==
    IF postMove.threw \/ movement.threw
    THEN [pc |-> "rejected", game |-> [g EXCEPT !.stack = <<>>],
          heap |-> IF postMove.threw THEN postMove.heap ELSE movement.heap]
    ELSE [heap |-> movement.heap] @@
         scoreMove(g,
                   [frame EXCEPT !.thisTurnPreMove.outputs =
                                     postMove.turn.outputs],
                   postMove.turn, move, movement.value)

scoreCandidate(g, frame, postMove, move) ==
    execMovement(g, frame, postMove,
                 execAlgorithm(postMove.heap,
                               postMove.turn.instance.movementAlgorithm, "a1",
                               postMove.turn, postMove.turn.board),
                 move)

\* The sum of the board program's results over the squares of the board
\* after `move`, counted from 0.
PostMoveTotalOf(scan) == scan.outputs.thisIterationPostMoveTotal

postMoveBoardTotal(h, g, frame, move) ==
    LET clone == cloneInstance(
                   h @@ [r \in AllRefs(ClonePrefix(g.clones)) |-> NoObject],
                   frame.thisTurnPreMove.instance,
                   InstanceRefs(ClonePrefix(g.clones)))
        turn == spreadPreMove(frame, clone.instance, chessMove(g.chess, move))
    IN PostMoveTotalOf(
         loopBoard(clone.heap,
                   [turn EXCEPT !.outputs.thisIterationPostMoveTotal = 0],
                   turn.board, Squares, TRUE))

\* What the movement program of a candidate is given, for the properties.
Candidate(g, frame, postMove, move, total) ==
    [evaluated |-> ~postMove.threw,
     moveIndex |-> frame.moveIndex,
     depth |-> frame.thisTurnPreMove.depth,
     move |-> move,
     seen |-> postMove.turn.outputs.thisIterationPostMoveTotal,
     total |-> total,
     nested |-> Len(g.stack) > 1,
     position |-> TurnBoard(g, frame.lastTurn),
     moves |-> chessMoves(g.chess),
     board |-> postMove.turn.board]

\* Lines 1009-1071: one iteration of `for (const move of moves)`, up to the
\* call of playNextTurn on the candidate or to the end of the iteration.
\* `moves` are the moves of `chess`.
PlayNextTurnMove ==
    /\ pc = "playNextTurn.moves"
    /\ Top(game).moveIndex <= Len(chessMoves(game.chess))
    /\ IF game.aborted
       THEN LET r == Return(game, NullResult)
            IN /\ game' = r.game
               /\ pc' = r.pc
               /\ heap' = heap
               /\ ghost' = [ghost EXCEPT
                              !.returned = Observed(game, NullResult)]
       ELSE LET move == chessMoves(game.chess)[Top(game).moveIndex]
                next == scoreCandidate(
                          [game EXCEPT !.clones = @ + 1], Top(game),
                          thisTurnPostMove(heap, game, Top(game), move), move)
            IN /\ game' = next.game
               /\ pc' = next.pc
               /\ heap' = next.heap
               /\ ghost' = [ghost EXCEPT !.candidate =
                    Candidate(game, Top(game),
                              thisTurnPostMove(heap, game, Top(game), move),
                              move,
                              postMoveBoardTotal(heap, game, Top(game), move))]
    /\ UNCHANGED <<walk, mut, evo>>

\* Lines 1073-1078.  Every nextTurn of scoredMoves holds the outputs object
\* of thisTurnPreMove, as the scans of all the candidates left it.
PlayNextTurnReturn ==
    /\ pc = "playNextTurn.moves"
    /\ Top(game).moveIndex > Len(chessMoves(game.chess))
    /\ LET frame == Top(game)
           best == reduce(frame.scoredMoves, frame.scoredMoves[1])
           result ==
               IF frame.scoredMoves = <<>> THEN NullResult
               ELSE [isNull |-> FALSE, score |-> best.score, move |-> best.move,
                     nextTurn |-> [best.nextTurn EXCEPT
                                     !.outputs = frame.thisTurnPreMove.outputs]]
           r == Return(game, result)
       IN /\ game' = r.game
          /\ pc' = r.pc
          /\ ghost' = [ghost EXCEPT !.returned = Observed(game, result)]
    /\ UNCHANGED <<heap, walk, mut, evo>>

\* Lines 1119-1120
applyMove(g) ==
    [g EXCEPT !.lastTurns[g.currentTurnColor] = g.result.nextTurn,
              !.chess = chessMove(g.chess, g.result.move)]

updateBoth(g, score, opponentScore) ==
    updateFitnessScore(updateFitnessScore(g, CurrentInstanceId(g), score),
                       OpponentInstanceId(g), opponentScore)

\* Lines 1122-1131
scoreCapture(g) ==
    IF checkCaptureOfAny(g.chess, g.result.move.to)
    THEN updateBoth(g, FITNESS_SCORES.CAPTURED_PIECE, FITNESS_SCORES.LOST_PIECE)
    ELSE g

\* Lines 1133-1170
scoreOutcome(g) ==
    IF g.chess.isCheckmate
    THEN endGame(updateBoth(g, FITNESS_SCORES.CHECKMATED_THEM,
                            FITNESS_SCORES.WAS_CHECKMATED))
    ELSE IF g.chess.isDraw
    THEN endGame(updateBoth(g, FITNESS_SCORES.FORCED_DRAW,
                            FITNESS_SCORES.WAS_DRAWN))
    ELSE IF g.chess.inCheck
    THEN updateBoth(g, FITNESS_SCORES.CHECKED_THEM, FITNESS_SCORES.WAS_CHECKED)
    ELSE g

\* The events of a turn whose move was applied: the move, a capture, and a
\* checkmate, a draw or a check.
CreditBoth(expected, g, score, opponentScore) ==
    Credit(Credit(expected, CurrentInstanceId(g), score),
           OpponentInstanceId(g), opponentScore)

CreditCapture(expected, g) ==
    IF checkCaptureOfAny(g.chess, g.result.move.to)
    THEN CreditBoth(expected, g, FITNESS_SCORES.CAPTURED_PIECE,
                    FITNESS_SCORES.LOST_PIECE)
    ELSE expected

CreditOutcome(expected, g) ==
    IF g.chess.isCheckmate
    THEN CreditBoth(expected, g, FITNESS_SCORES.CHECKMATED_THEM,
                    FITNESS_SCORES.WAS_CHECKMATED)
    ELSE IF g.chess.isDraw
    THEN CreditBoth(expected, g, FITNESS_SCORES.FORCED_DRAW,
                    FITNESS_SCORES.WAS_DRAWN)
    ELSE IF g.chess.inCheck
    THEN CreditBoth(expected, g, FITNESS_SCORES.CHECKED_THEM,
                    FITNESS_SCORES.WAS_CHECKED)
    ELSE expected

CreditTurn(expected, g) ==
    CreditOutcome(CreditCapture(Credit(expected, CurrentInstanceId(g),
                                       FITNESS_SCORES.TURN_PLAYED), g), g)

\* The totals of a colour's first turn, for the properties.
FirstTotals(outputs) ==
    [pre |-> outputs.firstIterationPreMoveTotal,
     post |-> outputs.firstIterationPostMoveTotal]

\* Lines 1108-1170, and line 1173 and the return of compareInstances after
\* a break.
TurnPlayed ==
    /\ pc = "playGame.turnPlayed"
    /\ IF game.result.isNull
       THEN /\ game' = endGame(updateFitnessScore(
                           [game EXCEPT !.timer = "none"],
                           CurrentInstanceId(game),
                           FITNESS_SCORES.FAIL_TO_PICK))
            /\ pc' = "returned"
            /\ ghost' = [ghost EXCEPT !.expected =
                           IF game.timer = "fired" THEN @
                           ELSE Credit(@, CurrentInstanceId(game),
                                       FITNESS_SCORES.FAIL_TO_PICK)]
       ELSE /\ game' = scoreOutcome(scoreCapture(applyMove(
                           [game EXCEPT !.timer = "none"])))
            /\ pc' = IF chessMove(game.chess, game.result.move).isGameOver
                     THEN "returned" ELSE "playGame"
            /\ ghost' = [ghost EXCEPT
                           !.expected = CreditTurn(@, applyMove(game)),
                           !.applied = @ + 1,
                           !.first[game.currentTurnColor] =
                              IF ghost.started[game.currentTurnColor] = 1
                              THEN FirstTotals(game.result.nextTurn.outputs)
                              ELSE @]
    /\ UNCHANGED <<heap, walk, mut, evo>>

(***************************************************************************)
(* Specification SpecGame: compareInstances([A, B]) on two instances whose *)
(* dynamic cells hold what an earlier game may have written.               *)
(***************************************************************************)
GameBoardTrees ==
    { [id |-> "write", memoryIndex |-> STATIC_MEMORY_SIZE,
       value |-> Leaf("is_in_check")],
      Args("sub", <<Leaf("pawn_was_captured"), Leaf("is_in_check")>>),
      Args("add", <<Leaf(CustomId(STATIC_MEMORY_SIZE)),
                    [id |-> "write", memoryIndex |-> STATIC_MEMORY_SIZE,
                     value |-> Leaf(CustomId(0))]>>),
      [id |-> "write", memoryIndex |-> MEMORY_SIZE,
       value |-> Leaf("is_in_check")] }

GameMovementTrees ==
    { Unary("abs", Leaf("depth")),
      Args("sub", <<Leaf("depth"), Leaf("depth")>>),
      Leaf("this_iteration_post_move_total"),
      Args("mod", <<Leaf("depth"), Leaf("this_iteration_post_move_total")>>) }

GameInstance(prefix, id) ==
    [id |-> id, boardAlgorithm |-> InstanceRefs(prefix).boardAlgorithm,
     movementAlgorithm |-> InstanceRefs(prefix).movementAlgorithm,
     memory |-> InstanceRefs(prefix).memory]

GameMemory(dynamicValue) ==
    [cells |-> [i \in 1..MEMORY_SIZE |->
        [id |-> CustomId(i - 1), index |-> i - 1,
         value |-> IF (i - 1) \in DynamicIndexes THEN dynamicValue
                   ELSE CUSTOM_VARIABLE_MAX]]]

InitGame ==
    /\ pc = "start"
    /\ walk = NoWalk
    /\ mut = NoMut
    /\ evo = NoEvo
    /\ game = NoGame
    /\ ghost = [instances |-> <<GameInstance("A", 1), GameInstance("B", 2)>>,
                evaluations |-> 0,
                turns |-> 0,
                applied |-> 0,
                timeout |-> [fired |-> FALSE],
                returned |-> [isNull |-> TRUE, legalMoves |-> 0,
                              aborted |-> FALSE, scoredMoves |-> <<>>],
                expected |-> [id \in {1, 2} |-> 0],
                preMoveMemory |-> <<>>,
                started |-> [color \in {"w", "b"} |-> 0],
                first |-> [color \in {"w", "b"} |-> FirstTotals(NoOutputs)],
                candidate |-> [evaluated |-> FALSE]]
    /\ \E boardA \in GameBoardTrees, boardB \in GameBoardTrees,
          movement \in GameMovementTrees,
          dynamicA \in DynamicValueDraws, dynamicB \in DynamicValueDraws :
         heap = [r \in AllRefs("A") \cup AllRefs("B") |->
            CASE r = "A.boardAlgorithm" -> [rootToken |-> boardA, type |-> "board"]
              [] r = "B.boardAlgorithm" -> [rootToken |-> boardB, type |-> "board"]
              [] r = "A.memory" -> GameMemory(dynamicA)
              [] r = "B.memory" -> GameMemory(dynamicB)
              [] OTHER -> [rootToken |-> movement, type |-> "movement"]]

NextGame ==
    \/ CompareInstancesCall
    \/ PlayNextTurnCall
    \/ TimerFires
    \/ PlayNextTurnResume
    \/ LoopBoardStep
    \/ LoopBoardEnd
    \/ PlayNextTurnMove
    \/ PlayNextTurnReturn
    \/ TurnPlayed

SpecGame == InitGame /\ [][NextGame]_vars

\* C5: when compareInstances([A, B]) is about to evaluate a board program for
\* the first time, every dynamic cell of A and of B is 0.
C5_DynamicResetAtGameStart ==
    (pc = "playNextTurn.loopBoard" /\ ghost.evaluations = 0)
      => \A i \in 1..2 : DynamicCells(game.instancesOrder[i]) = {0}

GameReturned == pc = "returned"

\* C14: the move that playNextTurn returns has a score greater than or
\* equal to the score of every scored candidate, and no candidate before
\* it in the order of the legal moves has that score.
C14_FirstMaximalMoveChosen ==
    ~ghost.returned.isNull =>
      LET scored == ghost.returned.scoredMoves
          chosen == CHOOSE i \in 1..Len(scored) :
                      scored[i].move = ghost.returned.move
      IN /\ \A j \in 1..Len(scored) :
              GreaterOrEqual(ghost.returned.score, scored[j].score)
         /\ \A j \in 1..(chosen - 1) :
              ~StrictEquals(scored[j].score, ghost.returned.score)

\* C15: playNextTurn returns null on a position with a legal move only when
\* the timer of the turn has fired.
C15_MoveReturnedUnlessTimeout ==
    (ghost.returned.isNull /\ ghost.returned.legalMoves > 0)
      => ghost.returned.aborted

\* C16: from the moment the timer of a turn fires, the side to move has its
\* score of that moment plus TIMEOUT, the opponent its score of that
\* moment, the game is cancelled, and the vector that was resolved is the
\* evaluationResult of every later state, the return of compareInstances
\* included.
C16_TimeoutHandling ==
    ghost.timeout.fired =>
      /\ game.evaluationResult[ghost.timeout.mover].fitnessScore =
           ghost.timeout.before[ghost.timeout.mover].fitnessScore
             + FITNESS_SCORES.TIMEOUT
      /\ game.evaluationResult[ghost.timeout.opponent] =
           ghost.timeout.before[ghost.timeout.opponent]
      /\ game.hasCancelled
      /\ game.resolved = <<game.evaluationResult>>

C16_Witness == ghost.timeout.fired /\ GameReturned

\* C17: once the timer of a turn has fired, the board of the game is the
\* board of that moment and no further turn is started.
C17_NoMoveAfterTimeout ==
    ghost.timeout.fired =>
      /\ game.chess = ghost.timeout.chess
      /\ ghost.turns = ghost.timeout.turns

\* C18: the promise of compareInstances is never rejected.
C18_NeverRejects == pc # "rejected"

\* C19: when compareInstances returns, the fitnessScore of each agent is the
\* sum of the table deltas of the events of the game.
C19_FitnessAttribution ==
    GameReturned =>
      \A id \in {1, 2} :
        game.evaluationResult[id].fitnessScore = ghost.expected[id]

(***************************************************************************)
(* Specification SpecExec: one call execAlgorithm(A.boardAlgorithm,        *)
(* square, turn) on a tree of ExecTrees, for a board in check or not.      *)
(***************************************************************************)
Write(memoryIndex, value) ==
    [id |-> "write", memoryIndex |-> memoryIndex, value |-> value]

If(condition, then, else) ==
    [id |-> "if", condition |-> condition, then |-> then, else |-> else]

\* The first tree is the one of the test 'should write to memory', whose
\* memoryIndex 2 is below STATIC_MEMORY_SIZE in the source.
ExecTrees ==
    { Write(STATIC_MEMORY_SIZE - 1, Unary("invert", Leaf("is_in_check"))),
      Write(0, Leaf("is_in_check")),
      Write(STATIC_MEMORY_SIZE, Unary("invert", Leaf("is_in_check"))),
      Write(MEMORY_SIZE - 1, Leaf(CustomId(0))),
      Write(MEMORY_SIZE, Leaf("is_in_check")),
      Write(STATIC_MEMORY_SIZE, Args("add", <<Leaf(CustomId(0)),
                                              Leaf(CustomId(0))>>)),
      Write(STATIC_MEMORY_SIZE, Args("div", <<Leaf(CustomId(0)),
                                              Leaf("is_in_check")>>)),
      Args("div", <<Leaf(CustomId(0)), Leaf("is_in_check")>>),
      Args("div", <<Leaf("is_in_check"), Leaf("is_in_check")>>),
      Args("div", <<Unary("invert", Leaf(CustomId(0))), Leaf("is_in_check")>>),
      Args("mod", <<Leaf(CustomId(0)), Leaf("is_in_check")>>),
      Args("mod", <<Leaf(CustomId(0)), Leaf(CustomId(STATIC_MEMORY_SIZE))>>),
      Args("and", <<Leaf("is_in_check"),
                    Write(STATIC_MEMORY_SIZE, Leaf(CustomId(0)))>>),
      Args("or", <<Leaf("is_in_check"),
                   Write(STATIC_MEMORY_SIZE, Leaf(CustomId(0)))>>),
      Args("add", <<Leaf("is_in_check"),
                    Write(STATIC_MEMORY_SIZE, Leaf(CustomId(0)))>>),
      Args("min", <<Leaf("is_in_check"), Leaf(CustomId(0)),
                    Write(STATIC_MEMORY_SIZE, Leaf(CustomId(0)))>>),
      If(Leaf("is_in_check"), Write(STATIC_MEMORY_SIZE, Leaf(CustomId(0))),
         Leaf(CustomId(1))),
      If(Leaf("is_in_check"), Leaf(CustomId(1)),
         Write(STATIC_MEMORY_SIZE, Leaf(CustomId(0)))),
      If(Write(STATIC_MEMORY_SIZE, Leaf("is_in_check")),
         Leaf(CustomId(STATIC_MEMORY_SIZE)),
         Write(STATIC_MEMORY_SIZE, Leaf(CustomId(0)))) }

ExecTurn ==
    [instance |-> GameInstance("A", 1), color |-> "w", depth |-> 1,
     outputs |-> NoOutputs]

InitExec ==
    /\ pc = "exec"
    /\ walk = NoWalk
    /\ mut = NoMut
    /\ evo = NoEvo
    /\ game = NoGame
    /\ \E rootToken \in ExecTrees, dynamicValue \in DynamicValueDraws :
         /\ heap = [r \in AllRefs("A") |->
               CASE r = "A.boardAlgorithm" ->
                      [rootToken |-> rootToken, type |-> "board"]
                 [] r = "A.memory" -> GameMemory(dynamicValue)
                 [] OTHER -> [rootToken |-> Unary("abs", Leaf("depth")),
                              type |-> "movement"]]
         /\ ghost = [before |-> GameMemory(dynamicValue).cells]

ExecAlgorithmCall ==
    /\ pc = "exec"
    /\ \E square \in Range(Squares), inCheck \in BOOLEAN :
         LET board == [NewChess EXCEPT !.inCheck = inCheck]
             r == execAlgorithm(heap, "A.boardAlgorithm", square, ExecTurn,
                                board)
         IN /\ heap' = r.heap
            /\ ghost' = [before |-> ghost.before, square |-> square,
                         board |-> board, value |-> r.value,
                         threw |-> r.threw]
    /\ pc' = "exec.returned"
    /\ UNCHANGED <<walk, mut, evo, game>>

NextExec == ExecAlgorithmCall

SpecExec == InitExec /\ [][NextExec]_vars

ExecReturned == pc = "exec.returned"

ExecRoot == heap["A.boardAlgorithm"].rootToken

ExecCells == heap["A.memory"].cells

\* walkToken on a subtree of the executed tree, from the memory `memory`.
ExecWalk(token, memory) ==
    walkToken(token, ghost.square, ExecTurn, ghost.board, memory)

\* C11: execAlgorithm changes no static cell; a `write` at the root with a
\* dynamic memoryIndex returns the value written and changes that cell
\* only, and with any other memoryIndex it is a fault and memory is as it
\* was.
C11_StaticMemoryReadOnly ==
    ExecReturned =>
      /\ \A i \in 1..STATIC_MEMORY_SIZE :
           ExecCells[i].value = ghost.before[i].value
      /\ ExecRoot.id = "write" =>
           IF ExecRoot.memoryIndex \in DynamicIndexes
           THEN /\ ~ghost.threw
                /\ ghost.value = ExecWalk(ExecRoot.value, ghost.before).value
                /\ ExecCells =
                     [ghost.before EXCEPT
                        ![ExecRoot.memoryIndex + 1].value = ghost.value]
           ELSE ghost.threw /\ ExecCells = ghost.before

\* C12: div(x, y) and mod(x, y) at the root, with y evaluating to 0, return
\* 0.
C12_DivisionByZeroReturnsZero ==
    (/\ ExecReturned
     /\ ExecRoot.id \in {"div", "mod"}
     /\ ExecWalk(ExecRoot.args[2], ghost.before).value = 0)
      => ~ghost.threw /\ ghost.value = 0

\* C13: a root with an args list leaves the memory that evaluating every
\* argument once, left to right, leaves; an `if` root leaves the memory
\* that its condition and then the chosen branch leave.
C13_StrictEvaluation ==
    (ExecReturned /\ ~ghost.threw) =>
      /\ ExecRoot.id \in ArgsIds =>
           ExecCells =
             walkTokens(ExecRoot.args, ghost.square, ExecTurn, ghost.board,
                        ghost.before).memory
      /\ ExecRoot.id = "if" =>
           LET condition == ExecWalk(ExecRoot.condition, ghost.before)
               chosen == IF condition.value >= 1 THEN ExecRoot.then
                         ELSE ExecRoot.else
           IN ExecCells = ExecWalk(chosen, condition.memory).memory

(***************************************************************************)
(* System (the population registry) and the runner's run().  this.players  *)
(* is a JS object: its property keys are strings, Object.keys lists the    *)
(* keys that are array indexes first, in ascending order, and then the     *)
(* other keys in the order they were added.  It is kept as the sequence of *)
(* its properties in that order.  A player is its id.                      *)
(***************************************************************************)
TournamentSizes == {2, 4, 6}

MaxTournaments == 2

MaxMigrations == 2

MaxImports == 2

\* uuid(): an id no player has had.
uuid(n) == "player" \o NumberName(n)

Property(key, index, player) ==
    [key |-> key, index |-> index, player |-> player]

Has(players, key) == \E i \in 1..Len(players) : players[i].key = key

\* players[id] = player, for an id that is no array index.
setById(players, player) ==
    IF Has(players, player.id)
    THEN [i \in 1..Len(players) |->
            IF players[i].key = player.id
            THEN Property(player.id, -1, player) ELSE players[i]]
    ELSE Append(players, Property(player.id, -1, player))

\* players[index] = player, for a number index >= 0: the key is the text
\* of the number.
setByIndex(players, index, player) ==
    IF Has(players, NumberName(index))
    THEN [i \in 1..Len(players) |->
            IF players[i].key = NumberName(index)
            THEN Property(NumberName(index), index, player) ELSE players[i]]
    ELSE LET before == SelectSeq(players,
                         LAMBDA p : p.index >= 0 /\ p.index < index)
             after == SelectSeq(players,
                         LAMBDA p : ~(p.index >= 0 /\ p.index < index))
         IN before \o <<Property(NumberName(index), index, player)>> \o after

\* setupTournament(tournamentSize), lines 529-541 of part_009
RECURSIVE setupTournament(_, _, _, _)
setupTournament(system, tournamentSize, i, uuids) ==
    IF i >= tournamentSize THEN [system |-> system, uuids |-> uuids]
    ELSE IF Len(system.players) < tournamentSize
    THEN setupTournament(
           [system EXCEPT !.players = setById(@, [id |-> uuid(uuids)])],
           tournamentSize, i + 1, uuids + 1)
    ELSE setupTournament(system, tournamentSize, i + 1, uuids)

\* evolvePlayers, lines 856-900: the two top players and
\* Object.keys(this.players).length - 2 children, keyed by their ids.
RECURSIVE spawn(_, _, _)
spawn(children, offspringToGenerate, uuids) ==
    IF offspringToGenerate <= 0 THEN children
    ELSE spawn(Append(children, [id |-> uuid(uuids)]), offspringToGenerate - 1,
               uuids + 1)

RECURSIVE reducePlayers(_, _)
reducePlayers(children, acc) ==
    IF children = <<>> THEN acc
    ELSE reducePlayers(Tail(children), setById(acc, Head(children)))

evolvePlayers(system, topPlayers, uuids) ==
    [system EXCEPT !.players =
        reducePlayers(spawn(topPlayers, Len(system.players) - 2, uuids), <<>>)]

\* migration(newPlayers), lines 903-912: the outcome, or the error thrown.
RECURSIVE migration(_, _, _)
migration(system, newPlayers, i) ==
    IF i >= Len(newPlayers) THEN [system |-> system, threw |-> FALSE]
    ELSE LET replaceIndex == Len(system.players) - 1 - i
         IN IF replaceIndex < 0 THEN [system |-> system, threw |-> TRUE]
            ELSE migration(
                   [system EXCEPT !.players =
                      setByIndex(@, replaceIndex, newPlayers[i + 1])],
                   newPlayers, i + 1)

(***************************************************************************)
(* playTournamentRoundWith, lines 543-806 of part_009.  A TournamentOutcome *)
(* is kept as the sequence of its properties [id, score] in the order they *)
(* were added.  What a game adds to the scores of its two players depends  *)
(* on the chess played: it is a choice from GameDeltas for each.           *)
(***************************************************************************)
GameDeltas == {1, 3}

Get(players, key) ==
    players[CHOOSE i \in 1..Len(players) : players[i].key = key].player

HasScore(outcome, id) == \E i \in 1..Len(outcome) : outcome[i].id = id

ScoreOf(outcome, id) ==
    IF HasScore(outcome, id)
    THEN outcome[CHOOSE i \in 1..Len(outcome) : outcome[i].id = id].score
    ELSE 0

\* tournamentOutcome[id] += delta, with a missing score set to 0 first
AddScore(outcome, id, delta) ==
    IF HasScore(outcome, id)
    THEN [i \in 1..Len(outcome) |->
            IF outcome[i].id = id
            THEN [outcome[i] EXCEPT !.score = @ + delta] ELSE outcome[i]]
    ELSE Append(outcome, [id |-> id, score |-> delta])

\* lines 558-566: Math.ceil(tournamentRound * tournamentMultiplier) to each
RECURSIVE roundBonus(_, _, _)
roundBonus(outcome, ids, tournamentRound) ==
    IF ids = <<>> THEN outcome
    ELSE roundBonus(AddScore(outcome, Head(ids), (tournamentRound + 1) \div 2),
                    Tail(ids), tournamentRound)

\* Array.prototype.sort with (a, b) => score[b] - score[a]: stable, descending
RECURSIVE sortByFitness(_, _, _)
sortByFitness(ids, outcome, sorted) ==
    IF ids = <<>> THEN sorted
    ELSE LET id == Head(ids)
             ahead == SelectSeq(sorted, LAMBDA other :
                        ScoreOf(outcome, other) >= ScoreOf(outcome, id))
             behind == SelectSeq(sorted, LAMBDA other :
                        ScoreOf(outcome, other) < ScoreOf(outcome, id))
         IN sortByFitness(Tail(ids), outcome, ahead \o <<id>> \o behind)

\* lines 575-588: shift() and pop() until the list is empty; a pair is made
\* only when both gave a player.
RECURSIVE matchups(_)
matchups(playersSortedByFitness) ==
    IF Len(playersSortedByFitness) < 2 THEN <<>>
    ELSE << << Head(playersSortedByFitness),
               playersSortedByFitness[Len(playersSortedByFitness)] >> >>
         \o matchups(SubSeq(playersSortedByFitness, 2,
                            Len(playersSortedByFitness) - 1))

GameResults == [swap : BOOLEAN, white : GameDeltas, black : GameDeltas]

\* lines 594-780: the games in order; each adds to the two scores and pushes
\* its winner.  this.players[id] of an id that is no key is undefined, and
\* reading player.instructions of it throws.
RECURSIVE playGames(_, _, _, _, _, _)
playGames(players, pairs, results, outcome, games, winners) ==
    IF pairs = <<>>
    THEN [outcome |-> outcome, games |-> games, winners |-> winners,
          threw |-> FALSE]
    ELSE LET pair == Head(pairs)
             result == Head(results)
             white == IF result.swap THEN pair[2] ELSE pair[1]
             black == IF result.swap THEN pair[1] ELSE pair[2]
             played == AddScore(AddScore(outcome, white, result.white),
                                black, result.black)
             winnerId == IF ScoreOf(played, white) > ScoreOf(played, black)
                         THEN white ELSE black
         IN IF ~Has(players, white) \/ ~Has(players, black)
            THEN [outcome |-> outcome, games |-> Append(games, <<white, black>>),
                  winners |-> winners, threw |-> TRUE]
            ELSE playGames(players, Tail(pairs), Tail(results), played,
                           Append(games, <<white, black>>),
                           Append(winners, winnerId))

\* One call of playTournamentRoundWith up to its return or its recursive
\* call: [outcome, games, winners, threw].
playTournamentRoundWith(system, playerIds, priorTournamentOutcome, tournamentRound, results) ==
    IF Len(playerIds) < 2 \/ Len(playerIds) % 2 # 0
    THEN [outcome |-> priorTournamentOutcome, games |-> <<>>,
          winners |-> <<>>, threw |-> TRUE]
    ELSE IF \E i \in 1..Len(playerIds) : ~Has(system.players, playerIds[i])
    THEN [outcome |-> priorTournamentOutcome, games |-> <<>>,
          winners |-> <<>>, threw |-> TRUE]
    ELSE LET ids == [i \in 1..Len(playerIds) |->
                       Get(system.players, playerIds[i]).id]
             tournamentOutcome ==
               roundBonus(priorTournamentOutcome, ids, tournamentRound)
         IN playGames(system.players,
                      matchups(sortByFitness(ids, tournamentOutcome, <<>>)),
                      results, tournamentOutcome, <<>>, <<>>)

\* evolvePlayers, lines 836-846: the two best of the outcome
topPlayerIds(tournamentOutcome) ==
    SubSeq(sortByFitness([i \in 1..Len(tournamentOutcome) |->
                            tournamentOutcome[i].id],
                         tournamentOutcome, <<>>), 1, 2)

(***************************************************************************)
(* Specification SpecTournament: setupTournament(n), then startTournament  *)
(* and evolvePlayers in turn as run() calls them, with migration(imports)  *)
(* between two tournaments.                                                *)
(***************************************************************************)
ImportedPlayers(m) == [i \in 1..m |-> [id |-> "imported" \o NumberName(i)]]

NoRound ==
    [playerIds |-> <<>>, outcome |-> <<>>, tournamentRound |-> 0,
     games |-> <<>>]

InitTournament ==
    /\ pc = "setupTournament"
    /\ walk = NoWalk
    /\ mut = NoMut
    /\ evo = NoEvo
    /\ game = NoGame
    /\ heap = [r \in {"system", "run"} |->
                 IF r = "system" THEN [players |-> <<>>]
                 ELSE [uuids |-> 0, tournamentCount |-> 0, migrations |-> 0,
                       round |-> NoRound]]
    /\ ghost = [tournamentSize |-> 0, participants |-> <<>>]

SetupTournament ==
    /\ pc = "setupTournament"
    /\ \E tournamentSize \in TournamentSizes :
         LET r == setupTournament(heap["system"], tournamentSize, 0,
                                  heap["run"].uuids)
         IN /\ heap' = [heap EXCEPT !["system"] = r.system,
                                    !["run"].uuids = r.uuids]
            /\ ghost' = [ghost EXCEPT !.tournamentSize = tournamentSize]
    /\ pc' = "run"
    /\ UNCHANGED <<walk, mut, evo, game>>

\* startTournament, lines 808-821: it throws on a registry of fewer than
\* two or of an odd number of players, and calls playTournamentRoundWith
\* with Object.keys(this.players).
StartTournament ==
    /\ pc = "run"
    /\ heap["run"].tournamentCount < MaxTournaments
    /\ IF Len(heap["system"].players) < 2 \/ Len(heap["system"].players) % 2 # 0
       THEN /\ pc' = "thrown"
            /\ heap' = heap
       ELSE /\ heap' = [heap EXCEPT !["run"].round =
                          [playerIds |->
                             [i \in 1..Len(heap["system"].players) |->
                                heap["system"].players[i].key],
                           outcome |-> <<>>, tournamentRound |-> 1,
                           games |-> <<>>]]
            /\ pc' = "playTournamentRoundWith"
    /\ ghost' = [ghost EXCEPT !.participants = <<>>]
    /\ UNCHANGED <<walk, mut, evo, game>>

\* One round: the call, its games, and either the recursive call with the
\* winners (lines 797-803) or the return of the outcome.
PlayTournamentRound ==
    /\ pc = "playTournamentRoundWith"
    /\ LET round == heap["run"].round
       IN \E results \in [1..(Len(round.playerIds) \div 2) -> GameResults] :
            LET r == playTournamentRoundWith(heap["system"], round.playerIds,
                       round.outcome, round.tournamentRound, results)
            IN /\ heap' = [heap EXCEPT !["run"].round =
                             [playerIds |-> IF Len(r.winners) > 1 THEN r.winners
                                            ELSE round.playerIds,
                              outcome |-> r.outcome,
                              tournamentRound |->
                                IF Len(r.winners) > 1
                                THEN round.tournamentRound + 1
                                ELSE round.tournamentRound,
                              games |-> r.games]]
               /\ ghost' = [ghost EXCEPT !.participants = round.playerIds]
               /\ pc' = IF r.threw THEN "thrown"
                        ELSE IF Len(r.winners) > 1
                        THEN "playTournamentRoundWith"
                        ELSE "evolvePlayers"
    /\ UNCHANGED <<walk, mut, evo, game>>

\* run(), lines 176-177 and 185: evolvePlayers(result), tournamentCount++
EvolvePlayers ==
    /\ pc = "evolvePlayers"
    /\ LET ids == topPlayerIds(heap["run"].round.outcome)
       IN IF \E i \in 1..2 : ~Has(heap["system"].players, ids[i])
          THEN /\ pc' = "thrown"
               /\ heap' = heap
          ELSE /\ heap' = [heap EXCEPT
                     !["system"] = evolvePlayers(@,
                        [i \in 1..2 |-> Get(heap["system"].players, ids[i])],
                        heap["run"].uuids),
                     !["run"].uuids = @ + Len(heap["system"].players) - 2,
                     !["run"].tournamentCount = @ + 1]
               /\ pc' = "run"
    /\ UNCHANGED <<walk, mut, evo, game, ghost>>

Migration ==
    /\ pc = "run"
    /\ heap["run"].tournamentCount > 0
    /\ heap["run"].migrations < MaxMigrations
    /\ \E m \in 1..MaxImports :
         LET r == migration(heap["system"], ImportedPlayers(m), 0)
         IN /\ heap' = [heap EXCEPT !["system"] = r.system,
                                    !["run"].migrations = @ + 1]
            /\ pc' = IF r.threw THEN "thrown" ELSE "run"
    /\ UNCHANGED <<walk, mut, evo, game, ghost>>

NextTournament ==
    \/ SetupTournament
    \/ StartTournament
    \/ PlayTournamentRound
    \/ EvolvePlayers
    \/ Migration

SpecTournament == InitTournament /\ [][NextTournament]_vars

\* C20: after setupTournament(n) the registry holds exactly n players, each
\* under its own id.
C20_PopulationSizeInvariant ==
    pc # "setupTournament" =>
      /\ Len(heap["system"].players) = ghost.tournamentSize
      /\ \A i \in 1..Len(heap["system"].players) :
           heap["system"].players[i].key = heap["system"].players[i].player.id

\* C21: a tournament started on a population of any even size n >= 2 that
\* setupTournament and evolvePlayers made never fails: no round throws, in
\* every round each participant is in exactly one game, and the outcome
\* returned holds a score for every player of the registry.
C21_TournamentCompletes ==
    heap["run"].migrations = 0 =>
      /\ pc # "thrown"
      /\ pc \in {"playTournamentRoundWith", "evolvePlayers"} =>
           \A i \in 1..Len(ghost.participants) :
             Cardinality({ g \in 1..Len(heap["run"].round.games) :
                \E side \in 1..2 :
                  heap["run"].round.games[g][side] = ghost.participants[i] }) = 1
      /\ pc = "evolvePlayers" =>
           \A i \in 1..Len(heap["system"].players) :
             HasScore(heap["run"].round.outcome,
                      heap["system"].players[i].player.id)

\* C22: for the kind of program being made and each i with 0 <= i < S + D,
\* some tree that generateRandomToken can return holds the variable leaf
\* custom_i.
C22_CustomLeavesSynthesized ==
    \A i \in 0..(MEMORY_SIZE - 1) :
      \E token \in generateRandomToken("null", ghost.type, 0,
                                        MaxGeneratedTokens) :
        CustomId(i) \in VariableLeaves(token)

\* C23: when walkAlgorithmTokens has returned and the visitor supplied no
\* replacement, the tree serializes as it did before the walk, in ordered
\* and in shuffle mode.
C23_WalkLeavesTreeUnchanged ==
    (WalkReturned /\ \A i \in 1..Len(walk.visits) : ~ReplacedAt(i)) =>
        stringify(WalkRoot) = stringify(ghost.before)

\* C24: the this_iteration_post_move_total that the movement program of a
\* candidate move is given is the sum of the board program's results over
\* the squares of that candidate's post-move board alone.
C24_PerCandidatePostMoveTotal ==
    ghost.candidate.evaluated =>
      ghost.candidate.seen = ghost.candidate.total

\* The memory banks of the calls of playNextTurn that have scanned the
\* board: every call below the innermost one, and the innermost one once it
\* is in its loop over the moves.
ScannedCalls ==
    { k \in 1..Len(game.stack) :
        k < Len(game.stack) \/ pc = "playNextTurn.moves" }

CellsInRange(cells) ==
    \A i \in 1..Len(cells) :
      /\ cells[i].value \in CUSTOM_VARIABLE_MIN..CUSTOM_VARIABLE_MAX
      /\ cells[i].id = CustomId(i - 1)
      /\ cells[i].index = i - 1

\* C26: the memory bank of an agent, as initializeNewInstance made it and
\* after the `write` nodes of an executed program, holds in every cell an
\* integer of [-99, +99], the cell at index i under the id custom_i.
C26_MemoryCellRange == CellsInRange(ExecCells)

\* The index of the cell that a memory mutation record names.
RecordIndex(record) ==
    CHOOSE i \in 0..(MEMORY_SIZE - 1) : CustomId(i) = record.variableName

\* C28: for every child that evolveInstance made with mutateStaticMemory(P),
\* the static cells of the child differ from P's only at the recorded
\* indices, which are static and pairwise distinct, at most
\* MAX_MUTATION_RATE of them; for each record, `from` is P's value of the
\* cell, `to` the child's, from # to, and both lie in [-99, +99].
C28_MemoryMutationRecords ==
    evo.active =>
      \A c \in 2..Len(evo.children) :
        LET P == heap[evo.instance.memory].cells
            M == heap[evo.children[c].instance.memory].cells
            records == evo.children[c].memoryMutations
        IN /\ Len(records) <= MAX_MUTATION_RATE
           /\ \A i \in 0..(STATIC_MEMORY_SIZE - 1) :
                M[i + 1].value # P[i + 1].value =>
                  \E r \in 1..Len(records) : RecordIndex(records[r]) = i
           /\ \A r \in 1..Len(records) :
                /\ RecordIndex(records[r]) < STATIC_MEMORY_SIZE
                /\ \A q \in 1..Len(records) :
                     RecordIndex(records[q]) = RecordIndex(records[r]) => q = r
                /\ records[r].from = P[RecordIndex(records[r]) + 1].value
                /\ records[r].to = M[RecordIndex(records[r]) + 1].value
                /\ records[r].from # records[r].to
                /\ records[r].from \in CUSTOM_VARIABLE_MIN..CUSTOM_VARIABLE_MAX
                /\ records[r].to \in CUSTOM_VARIABLE_MIN..CUSTOM_VARIABLE_MAX

\* C27: a candidate of a recursive call of playNextTurn is one of the legal
\* moves of the position the call was made for, the post-move position of
\* the caller's candidate, and is played on that position.
C27_SearchExploresHypotheticalLine ==
    (ghost.candidate.evaluated /\ ghost.candidate.nested) =>
      /\ ghost.candidate.moves = chessMoves(ghost.candidate.position)
      /\ ghost.candidate.board =
           chessMove(ghost.candidate.position, ghost.candidate.move)

\* The outermost call of playNextTurn has built thisTurnPreMove.
TopLevelPreMove ==
    /\ game.active
    /\ Len(game.stack) = 1
    /\ pc \in {"playNextTurn.loopBoard", "playNextTurn.moves"}

\* C29: in the outermost call of playNextTurn of every turn, thisTurnPreMove
\* has the colour of the side to move and the board of the game, its depth
\* is the number of turns that colour has started, and from that colour's
\* second turn on its first-iteration totals are those of its first turn.
C29_TopLevelPreMoveContext ==
    TopLevelPreMove =>
      LET turn == Top(game).thisTurnPreMove
          color == game.currentTurnColor
      IN /\ turn.color = color
         /\ TurnBoard(game, turn) = game.chess
         /\ turn.depth = ghost.started[color]
         /\ ghost.started[color] > 1 =>
              FirstTotals(turn.outputs) = ghost.first[color]

\* compareInstances has returned and its promise is resolved with a vector
\* of two entries, one white and one black.
GameResolved ==
    /\ pc = "returned"
    /\ game.resolved # <<>>
    /\ Cardinality(DOMAIN game.resolved[1]) = 2
    /\ { game.resolved[1][id].color : id \in DOMAIN game.resolved[1] }
         = {"w", "b"}

\* No continuation, timer callback or turn of the call is left to run: the
\* promise of compareInstances is settled.  The chess of the model reports
\* game over after MaxPlies moves at the latest, so every run of SpecGame
\* ends in such a state.
GameOver == pc \in {"returned", "rejected"}

\* C30: every game ends resolved: once compareInstances has nothing left to
\* run, its promise has resolved with a score vector of exactly two entries,
\* one per agent, one coloured white and one black.
C30_GameEndsResolved == GameOver => GameResolved

=============================================================================
